---------------------------- MODULE Spec2Model ----------------------------
(***************************************************************************)
(* bitcaptcha: a Lightning micropayment widget.                            *)
(*                                                                         *)
(*  - PaymentStateMachine   src/src/payment/state-machine.ts               *)
(*  - verifyPreimage, hex   src/src/payment/verify.ts, src/src/utils/hex.ts*)
(*  - BitCaptchaWidget      src/src/widget.ts  (checkResult and handlers)  *)
(*  - NwcClient             src/src/nwc/client.ts                          *)
(*                                                                         *)
(* Strings whose characters the code inspects (hex strings, the wallet's   *)
(* "state" field) are tuples of one-character strings.                     *)
(***************************************************************************)
EXTENDS Integers, Sequences, FiniteSets, TLC

(***************************************************************************)
(* Bounds of the model.                                                    *)
(***************************************************************************)
\* listeners registered on one state machine
MaxListeners == 2
\* sockets one client creates over its life
MaxSockets == 3
\* sendRequest calls of one client
MaxRequests == 2
\* decrypts of one request that run at the same time
MaxDecrypts == 1
\* sendRequest calls where the sockets are the subject (SpecNwc)
SoloRequests == 1
\* sockets where the concurrent requests are the subject (SpecMux)
MuxSockets == 2
\* poll closures (startPolling calls) of one widget
MaxSessions == 2
\* transactions in one list_transactions result
MaxTx == 2
\* calls of the setInterval callback that have not returned
MaxInFlight == 2
\* firings of one setInterval timer that are explored
MaxTicks == 5

VARIABLES
    \* ---- PaymentStateMachine ----
    state,          \* _state
    data,           \* _data: a function from the keys that are set to their values
    listeners,      \* listeners: sequence of listener ids, in registration order
    handles,        \* listeners for which onStateChange returned an unsubscribe handle
    notified,       \* the listener calls the last call made, in order, with their arguments
    thrown,         \* the error the last call raised ("" when it returned)
    call,           \* the last call on the state machine: [op, from, target, data, listener]
    \* ---- BitCaptchaWidget (checkResult) ----
    checked,        \* the record last handed to checkResult
    verdict,        \* what checkResult did with it
    tokens,         \* the tokens handed to the success hook, in order
    paymentHash,    \* the payment hash the poll loop carries
    callback,       \* config.callback names a function on window
    \* ---- NwcClient ----
    ws,             \* this.ws: the socket the client refers to, 0 for null
    wsConnecting,   \* this.wsConnecting: the socket whose connect promise it is, 0 for null
    sock,           \* the sockets created so far: readyState, connect timer, connect promise
    rq,             \* the sendRequest calls: position, captured socket, timer, listener, ...
    ids,            \* the event id signEvent gives each request
    \* ---- payment/verify.ts ----
    vcall,          \* the last createVerificationToken call: arguments and result
    \* ---- BitCaptchaWidget (startPayment and the poll loop) ----
    wpc,            \* where startPayment is: [at, hash]
    polling,        \* this.polling
    pollTimer,      \* this.pollTimer: the session whose timer it holds, 0 for null
    sess,           \* the poll closures startPolling created, one per session
    \* ---- BitCaptchaWidget (the setInterval versions) ----
    confirm,        \* where the confirmPaid call in progress is: [at, i, hash]
    manual,         \* the last verifyManualPreimage call: argument and outcome
    \* ---- NIP-44 (padding, encrypt, decrypt) ----
    nip             \* the NIP-44 call under way: its arguments, then its outcome

smVars == <<state, data, listeners, handles, notified, thrown, call>>
wVars == <<checked, verdict, tokens, paymentHash, callback>>
nwcVars == <<ws, wsConnecting, sock, rq, ids>>
pollVars == <<wpc, polling, pollTimer, sess>>
ivVars == <<confirm, manual>>
nipVars == <<nip>>
xVars == <<vcall, pollVars, ivVars, nipVars>>

-----------------------------------------------------------------------------
(***************************************************************************)
(* PaymentStateMachine                                                     *)
(***************************************************************************)
PaymentState ==
    {"idle", "invoicing", "awaiting_payment", "webln_prompt", "verified", "error"}

VALID_TRANSITIONS_verifiedLeaves ==
    [s \in PaymentState |->
        CASE s = "idle" -> {"invoicing"}
          [] s = "invoicing" -> {"awaiting_payment", "error"}
          [] s = "awaiting_payment" -> {"webln_prompt", "verified", "error"}
          [] s = "webln_prompt" -> {"verified", "awaiting_payment", "error"}
          [] s = "verified" -> {"idle"}
          [] s = "error" -> {"idle"}]

VALID_TRANSITIONS_errorToInvoicing ==
    [s \in PaymentState |->
        CASE s = "idle" -> {"invoicing"}
          [] s = "invoicing" -> {"awaiting_payment", "error"}
          [] s = "awaiting_payment" -> {"webln_prompt", "verified", "error"}
          [] s = "webln_prompt" -> {"verified", "awaiting_payment", "error"}
          [] s = "verified" -> {}
          [] s = "error" -> {"idle", "invoicing"}]

\* a table in which a declined one-click payment cannot return to waiting
VALID_TRANSITIONS_noPromptReturn ==
    [s \in PaymentState |->
        CASE s = "idle" -> {"invoicing"}
          [] s = "invoicing" -> {"awaiting_payment", "error"}
          [] s = "awaiting_payment" -> {"webln_prompt", "verified", "error"}
          [] s = "webln_prompt" -> {"verified", "error"}
          [] s = "verified" -> {}
          [] s = "error" -> {"idle"}]

VALID_TRANSITIONS ==
    [s \in PaymentState |->
        CASE s = "idle" -> {"invoicing"}
          [] s = "invoicing" -> {"awaiting_payment", "error"}
          [] s = "awaiting_payment" -> {"webln_prompt", "verified", "error"}
          [] s = "webln_prompt" -> {"verified", "awaiting_payment", "error"}
          [] s = "verified" -> {}
          [] s = "error" -> {"idle"}]

InvalidTransition == "Invalid state transition"

\* JavaScript values: undefined, a string (a tuple of characters), a number
Undefined == [t |-> "undefined"]
Str(s) == [t |-> "string", v |-> s]
Num(n) == [t |-> "number", v |-> n]
Bool(b) == [t |-> "boolean", v |-> b]

\* an optional argument: <<>> when absent, <<x>> when x is passed
Absent == <<>>
Given(x) == <<x>>

\* { ...a, ...b }
\* an assignment that replaces the bag by the new entries
Spread_replace(a, b) == b

Spread(a, b) ==
    [k \in DOMAIN a \cup DOMAIN b |-> IF k \in DOMAIN b THEN b[k] ELSE a[k]]

EmptyBag == [k \in {} |-> Undefined]

ListenerIds == 1..MaxListeners

\* a loop that calls the listeners last to first
Notify_reversed(ls, s, bag) ==
    [i \in DOMAIN ls |-> [listener |-> ls[Len(ls) + 1 - i], state |-> s, data |-> bag]]

\* for (const listener of this.listeners) listener(this._state, this._data):
\* the calls made, in order, each with its arguments
Notify(ls, s, bag) ==
    [i \in DOMAIN ls |-> [listener |-> ls[i], state |-> s, data |-> bag]]

\* a transition() that merges the data before it looks at the table
SmTransition_mergeFirst(newState, d) ==
    LET merged == IF d = Absent THEN data ELSE Spread(data, d[1]) IN
    /\ call' = [op |-> "transition", from |-> state, target |-> newState, data |-> d, listener |-> 0]
    /\ data' = merged
    /\ IF newState \notin VALID_TRANSITIONS[state]
       THEN /\ thrown' = InvalidTransition
            /\ notified' = <<>>
            /\ UNCHANGED state
       ELSE /\ thrown' = ""
            /\ state' = newState
            /\ notified' = Notify(listeners, newState, merged)
    /\ UNCHANGED <<listeners, handles>>

\* transition(newState, d), as the relation between the machine before and after
SmTransition(newState, d) ==
    LET allowed == VALID_TRANSITIONS[state]
        merged == IF d = Absent THEN data ELSE Spread(data, d[1])
    IN
    /\ call' = [op |-> "transition", from |-> state, target |-> newState, data |-> d, listener |-> 0]
    /\ IF newState \notin allowed
       THEN /\ thrown' = InvalidTransition
            /\ notified' = <<>>
            /\ UNCHANGED <<state, data>>
       ELSE /\ thrown' = ""
            /\ state' = newState
            /\ data' = merged
            /\ notified' = Notify(listeners, newState, merged)
    /\ UNCHANGED <<listeners, handles>>

\* a reset() that goes through transition("idle")
SmReset_viaTable ==
    /\ call' = [op |-> "reset", from |-> state, target |-> "idle", data |-> Absent, listener |-> 0]
    /\ IF "idle" \notin VALID_TRANSITIONS[state]
       THEN /\ thrown' = InvalidTransition
            /\ notified' = <<>>
            /\ UNCHANGED <<state, data>>
       ELSE /\ thrown' = ""
            /\ state' = "idle"
            /\ data' = EmptyBag
            /\ notified' = Notify(listeners, "idle", EmptyBag)
    /\ UNCHANGED <<listeners, handles>>

\* reset()
SmReset ==
    /\ call' = [op |-> "reset", from |-> state, target |-> "idle", data |-> Absent, listener |-> 0]
    /\ state' = "idle"
    /\ data' = EmptyBag
    /\ notified' = Notify(listeners, "idle", EmptyBag)
    /\ thrown' = ""
    /\ UNCHANGED <<listeners, handles>>

\* onStateChange(listener): push, and hand out the unsubscribe closure
SmOnStateChange(l) ==
    /\ Len(listeners) < MaxListeners
    /\ listeners' = Append(listeners, l)
    /\ handles' = handles \cup {l}
    /\ call' = [op |-> "onStateChange", from |-> state, target |-> state,
                data |-> Absent, listener |-> l]
    /\ notified' = <<>>
    /\ thrown' = ""
    /\ UNCHANGED <<state, data>>

IndexOf(seq, x) ==
    IF \E i \in DOMAIN seq : seq[i] = x
    THEN (CHOOSE i \in DOMAIN seq :
            seq[i] = x /\ \A j \in DOMAIN seq : seq[j] = x => i <= j) - 1
    ELSE -1

Splice1(seq, idx) ==
    [i \in 1..(Len(seq) - 1) |-> IF i <= idx THEN seq[i] ELSE seq[i + 1]]

\* the closure onStateChange returned for listener l
SmUnsubscribe(l) ==
    /\ l \in handles
    /\ LET idx == IndexOf(listeners, l) IN
       listeners' = IF idx >= 0 THEN Splice1(listeners, idx) ELSE listeners
    /\ call' = [op |-> "unsubscribe", from |-> state, target |-> state,
                data |-> Absent, listener |-> l]
    /\ notified' = <<>>
    /\ thrown' = ""
    /\ UNCHANGED <<state, data, handles>>

SmInit ==
    /\ state = "idle"
    /\ data = EmptyBag
    /\ listeners = <<>>
    /\ handles = {}
    /\ notified = <<>>
    /\ thrown = ""
    /\ call = [op |-> "new", from |-> "idle", target |-> "idle", data |-> Absent, listener |-> 0]

-----------------------------------------------------------------------------
(***************************************************************************)
(* utils/hex.ts and payment/verify.ts                                      *)
(***************************************************************************)
HexDigits ==
    <<"0", "1", "2", "3", "4", "5", "6", "7", "8", "9", "a", "b", "c", "d", "e", "f">>

UpperHex == <<"A", "B", "C", "D", "E", "F">>

\* the value of a character read as a base-16 digit, -1 when it is none
DigitValue(c) ==
    IF \E i \in 1..16 : HexDigits[i] = c
    THEN (CHOOSE i \in 1..16 : HexDigits[i] = c) - 1
    ELSE IF \E i \in 1..6 : UpperHex[i] = c
         THEN (CHOOSE i \in 1..6 : UpperHex[i] = c) + 9
         ELSE -1

NaN == -1

\* Number.parseInt(pair, 16) of a two-character string: the longest prefix of
\* base-16 digits, NaN when there is none
ParseInt16(pair) ==
    IF DigitValue(pair[1]) < 0 THEN NaN
    ELSE IF DigitValue(pair[2]) < 0 THEN DigitValue(pair[1])
    ELSE 16 * DigitValue(pair[1]) + DigitValue(pair[2])

\* hexes[b]: b.toString(16).padStart(2, "0")
hexes(b) == <<HexDigits[(b \div 16) + 1], HexDigits[(b % 16) + 1]>>

RECURSIVE bytesToHex(_)
bytesToHex(bytes) ==
    IF bytes = <<>> THEN <<>>
    ELSE hexes(bytes[1]) \o bytesToHex(Tail(bytes))

\* hexToBytes(hex): [ok |-> TRUE, bytes |-> ...] or the error it throws
hexToBytes(hex) ==
    IF Len(hex) % 2 # 0 THEN [ok |-> FALSE, error |-> "Invalid hex string"]
    ELSE LET n == Len(hex) \div 2
             byte(i) == ParseInt16(<<hex[2 * i - 1], hex[2 * i]>>)
         IN IF \E i \in 1..n : byte(i) = NaN
            THEN [ok |-> FALSE, error |-> "Invalid hex character"]
            ELSE [ok |-> TRUE, bytes |-> [i \in 1..n |-> byte(i)]]

\* String.prototype.toLowerCase on the characters of the model
LowerChar(c) ==
    CASE c = "A" -> "a" [] c = "B" -> "b" [] c = "C" -> "c" [] c = "D" -> "d"
      [] c = "E" -> "e" [] c = "F" -> "f" [] c = "I" -> "i" [] c = "L" -> "l"
      [] c = "P" -> "p" [] c = "S" -> "s" [] c = "T" -> "t"
      [] OTHER -> c

toLowerCase(s) == [i \in DOMAIN s |-> LowerChar(s[i])]

\* sha256 of @noble/hashes, abstracted: a deterministic one-byte digest that is
\* injective on the byte strings of at most one byte
RECURSIVE Sha256Fold(_, _)
Sha256Fold(h, bytes) ==
    IF bytes = <<>> THEN h
    ELSE Sha256Fold((h * 31 + bytes[1] * 7 + 3) % 256, Tail(bytes))

sha256(bytes) == <<Sha256Fold(227, bytes)>>

\* verifyPreimage that compares the hash as it is written
verifyPreimage_caseSensitive(preimage, hash) ==
    LET preimageBytes == hexToBytes(preimage) IN
    IF ~preimageBytes.ok THEN preimageBytes
    ELSE [ok |-> TRUE,
          value |-> bytesToHex(sha256(preimageBytes.bytes)) = hash]

\* verifyPreimage(preimage, hash): [ok |-> TRUE, value |-> BOOLEAN], or the
\* error hexToBytes throws
verifyPreimage(preimage, hash) ==
    LET preimageBytes == hexToBytes(preimage) IN
    IF ~preimageBytes.ok THEN preimageBytes
    ELSE [ok |-> TRUE,
          value |-> bytesToHex(sha256(preimageBytes.bytes)) = toLowerCase(hash)]

\* the values of Math.floor(Date.now() / 1000) the model draws from
Clock == {1700000000, 1700000005}

Null == [t |-> "null"]

\* createVerificationToken(preimage, hash) at time now: the token, null, or
\* the error verifyPreimage throws
createVerificationToken(preimage, hash, now) ==
    LET v == verifyPreimage(preimage, hash) IN
    IF ~v.ok THEN [t |-> "throw", error |-> v.error]
    ELSE IF ~v.value THEN Null
    ELSE [t |-> "token", paymentHash |-> hash, preimage |-> preimage, settledAt |-> now]

NoCall == [t |-> "none"]

\* a call of createVerificationToken by any caller
CreateToken(preimage, hash, now) ==
    vcall' = [t |-> "call", preimage |-> preimage, hash |-> hash,
              result |-> createVerificationToken(preimage, hash, now)]

VInit == vcall = NoCall

-----------------------------------------------------------------------------
(***************************************************************************)
(* BitCaptchaWidget: checkResult and the two settlement handlers           *)
(***************************************************************************)
\* JavaScript truthiness of the values of the model
Truthy(x) ==
    CASE x.t = "undefined" -> FALSE
      [] x.t = "null" -> FALSE
      [] x.t = "string" -> x.v # <<>>
      [] x.t = "number" -> x.v # 0
      [] x.t = "boolean" -> x.v
      [] OTHER -> TRUE

\* /^0+$/.test(s)
AllZeros(s) == Len(s) > 0 /\ \A i \in DOMAIN s : s[i] = "0"

settled == <<"s", "e", "t", "t", "l", "e", "d">>
paid == <<"p", "a", "i", "d">>

\* checkResult without the all-zero test
checkResultBranch_noZeroTest(result) ==
    IF ~Truthy(result) THEN "false"
    ELSE IF Truthy(result.preimage) /\ Len(result.preimage.v) > 0
    THEN "handlePaymentReceived"
    ELSE IF Truthy(result.settled_at) THEN "handleSettledWithoutPreimage"
    ELSE LET st == toLowerCase(IF Truthy(result.state) THEN result.state.v ELSE <<>>)
         IN IF st = settled \/ st = paid THEN "handleSettledWithoutPreimage"
            ELSE "false"

\* checkResult(result, paymentHash): the handler it calls before returning true,
\* "false" when it calls none and returns false
checkResultBranch(result) ==
    IF ~Truthy(result) THEN "false"
    ELSE IF /\ Truthy(result.preimage)
            /\ Len(result.preimage.v) > 0
            /\ ~AllZeros(result.preimage.v)
    THEN "handlePaymentReceived"
    ELSE IF Truthy(result.settled_at) THEN "handleSettledWithoutPreimage"
    ELSE LET st == toLowerCase(IF Truthy(result.state) THEN result.state.v ELSE <<>>)
         IN IF st = settled \/ st = paid THEN "handleSettledWithoutPreimage"
            ELSE "false"

\* fireCallback(token) when config.callback is set
FireCallback(token) ==
    tokens' = IF callback THEN Append(tokens, token) ELSE tokens

\* a handlePaymentReceived that builds the token and calls the hook before it
\* looks at the proof
HandlePaymentReceived_hookFirst(preimage, hash, now) ==
    LET v == verifyPreimage(preimage, hash) IN
    IF ~v.ok
    THEN UNCHANGED <<smVars, tokens>>
    ELSE /\ FireCallback(createVerificationToken(preimage, hash, now))
         /\ IF v.value
            THEN SmTransition("verified", Given([preimage |-> Str(preimage)]))
            ELSE SmTransition("error",
                   Given([error |-> Str("Payment verification failed - invalid preimage")]))

\* handlePaymentReceived(preimage, hash)
HandlePaymentReceived(preimage, hash, now) ==
    LET v == verifyPreimage(preimage, hash) IN
    IF ~v.ok
    THEN UNCHANGED <<smVars, tokens>>
    ELSE IF ~v.value
    THEN /\ SmTransition("error",
              Given([error |-> Str("Payment verification failed - invalid preimage")]))
         /\ UNCHANGED tokens
    ELSE /\ SmTransition("verified", Given([preimage |-> Str(preimage)]))
         /\ IF thrown' = ""
            THEN FireCallback(createVerificationToken(preimage, hash, now))
            ELSE UNCHANGED tokens

\* handleSettledWithoutPreimage(hash)
HandleSettledWithoutPreimage(hash, now) ==
    LET token == [t |-> "token", paymentHash |-> hash, preimage |-> <<>>,
                  settledAt |-> now] IN
    /\ SmTransition("verified", Given(EmptyBag))
    /\ IF thrown' = "" THEN FireCallback(token) ELSE UNCHANGED tokens

\* checkResult(result, hash)
CheckResultFor(result, hash, now) ==
    LET branch == checkResultBranch(result) IN
    /\ checked' = result
    /\ verdict' = branch
    /\ CASE branch = "handlePaymentReceived" ->
              HandlePaymentReceived(result.preimage.v, hash, now)
         [] branch = "handleSettledWithoutPreimage" ->
              HandleSettledWithoutPreimage(hash, now)
         [] OTHER -> UNCHANGED <<smVars, tokens>>

\* checkResult(result, paymentHash) as checkPayment calls it, inside its try
CheckResult(result, now) ==
    /\ CheckResultFor(result, paymentHash, now)
    /\ UNCHANGED <<paymentHash, callback>>

-----------------------------------------------------------------------------
(***************************************************************************)
(* Inputs                                                                  *)
(***************************************************************************)
\* preimage "0a" hashes to "c6" under the digest of the model
GoodPreimage == <<"0", "a">>
GoodHash == bytesToHex(sha256(hexToBytes(GoodPreimage).bytes))

PreimageInputs ==
    { Undefined, Null, Str(<<>>), Str(<<"0", "0">>), Str(GoodPreimage),
      Str(<<"0", "1">>), Str(<<"a">>) }

HashInputs == { GoodHash, <<"C", "6">>, <<"8", "7">> }

SettledAtInputs == { Undefined, Num(0), Num(1700000000) }

StateInputs ==
    { Undefined, Str(settled), Str(<<"P", "a", "i", "d">>),
      Str(<<"p", "e", "n", "d", "i", "n", "g">>) }

RecordInputs ==
    { Undefined, Null } \cup
    [t : {"object"}, preimage : PreimageInputs, settled_at : SettledAtInputs,
     state : StateInputs]

DataInputs ==
    { Absent, Given(EmptyBag),
      Given([invoice |-> Str("lnbc1"), paymentHash |-> Str(GoodHash),
             amount |-> Num(100)]),
      Given([invoice |-> Str("lnbc2"), paymentHash |-> Str(<<"8", "7">>)]),
      Given([preimage |-> Str(GoodPreimage)]),
      Given([error |-> Str("Payment timeout")]) }

WInit ==
    /\ checked = Undefined
    /\ verdict = "none"
    /\ tokens = <<>>
    /\ paymentHash = <<>>
    /\ callback = FALSE

-----------------------------------------------------------------------------
(***************************************************************************)
(* NwcClient                                                               *)
(*                                                                         *)
(* A socket is CONNECTING, OPEN, CLOSING or CLOSED as in the WebSocket     *)
(* interface: close() moves a live socket to CLOSING at once and the close *)
(* event is delivered later, in a task of its own; a failed connection     *)
(* delivers its error event and its close event in one task; messages are  *)
(* delivered only while the socket is OPEN.  The relay is any peer: it may *)
(* send any message at any time.                                           *)
(***************************************************************************)
NWC_REQUEST_KIND == 23194
NWC_RESPONSE_KIND == 23195

Sockets == 1..MaxSockets
\* request r is the r-th sendRequest call
Requests == 1..MaxRequests

\* event ids, as strings of two characters: no two requests get the same id,
\* and two ids may or may not begin alike
IdInputs ==
    { [r \in 1..MaxRequests |-> <<"a", r>>],
      [r \in 1..MaxRequests |-> <<IF r = 1 THEN "a" ELSE "b", r>>] }
EventIds == { f[r] : f \in IdInputs, r \in 1..MaxRequests }
NoId == <<>>

\* "bitcaptcha-" + event.id.slice(0, 8), with ids of two characters cut to one
SubId(id) == <<"bitcaptcha-">> \o SubSeq(id, 1, 1)

SubIds == { SubId(id) : id \in EventIds }

walletPubkey == "walletPubkey"

NoSocket == [rs |-> "none", timer |-> FALSE, promise |-> "none"]

NoEvent == [t |-> "none"]

NewRequest ==
    [pc |-> "new",          \* new, connect, crypto, sub (the promise exists), done
     cp |-> 0,              \* the connect promise sendRequest awaits
     ws |-> 0,              \* const ws = this.ws!
     id |-> NoId,           \* event.id
     timer |-> FALSE,       \* the request timer is armed
     listener |-> FALSE,    \* onMessage is a message listener of ws
     eose |-> FALSE,        \* eoseReceived
     reqOn |-> 0,           \* the socket ["REQ", subId, filter] was written to
     eventOn |-> 0,         \* the socket ["EVENT", event] was written to
     closeIssued |-> FALSE, \* this.send(["CLOSE", subId]) has been called
     closeOn |-> 0,         \* the socket ["CLOSE", subId] was first written to
     dec |-> <<>>,          \* the accepted responses whose nip04Decrypt is running
     out |-> "none",        \* none, resolved, timeout, decrypt, connect, TypeError
     by |-> NoEvent]        \* the response the promise was settled with

NwcInit ==
    /\ ws = 0
    /\ wsConnecting = 0
    /\ sock = [s \in Sockets |-> NoSocket]
    /\ rq = [r \in Requests |-> NewRequest]
    /\ ids \in IdInputs

IsOpen(s) == s # 0 /\ sock[s].rs = "OPEN"
IsLive(s) == s # 0 /\ sock[s].rs \in {"CONNECTING", "OPEN"}

\* ws.close() on socket s
CloseSocket(socks, s) ==
    IF socks[s].rs \in {"CONNECTING", "OPEN"}
    THEN [socks EXCEPT ![s].rs = "CLOSING"]
    ELSE socks

\* the sockets not yet created, of the n the model may create
FreeSockets(n) == { s \in 1..n : sock[s].rs = "none" }
NextSocket(n) == CHOOSE s \in FreeSockets(n) : \A t \in FreeSockets(n) : s <= t

NewSocket == [rs |-> "CONNECTING", timer |-> TRUE, promise |-> "pending"]

\* connect(): the fields after the call, the promise it returns (0: it returned
\* at once) and whether it opened a socket
ConnectEffect(n) ==
    IF IsOpen(ws)
    THEN [ws |-> ws, wsConnecting |-> wsConnecting, sock |-> sock,
          ret |-> 0, opened |-> FALSE]
    ELSE IF wsConnecting # 0
    THEN [ws |-> ws, wsConnecting |-> wsConnecting, sock |-> sock,
          ret |-> wsConnecting, opened |-> FALSE]
    ELSE [ws |-> NextSocket(n), wsConnecting |-> NextSocket(n),
          sock |-> [sock EXCEPT ![NextSocket(n)] = NewSocket],
          ret |-> NextSocket(n), opened |-> TRUE]

\* connect() needs a socket the model still has
CanConnect(n) == IsOpen(ws) \/ wsConnecting # 0 \/ FreeSockets(n) # {}

\* connect() called by the application
Connect(n) ==
    /\ CanConnect(n)
    /\ LET c == ConnectEffect(n) IN
       /\ ws' = c.ws
       /\ wsConnecting' = c.wsConnecting
       /\ sock' = c.sock
    /\ UNCHANGED <<rq, ids>>

\* disconnect()
Disconnect ==
    /\ sock' = IF ws # 0 THEN CloseSocket(sock, ws) ELSE sock
    /\ ws' = 0
    /\ wsConnecting' = 0
    /\ UNCHANGED <<rq, ids>>

\* ws.onopen of socket s
SocketOpen(s) ==
    /\ sock[s].rs = "CONNECTING"
    /\ sock' = [sock EXCEPT ![s] =
                 [rs |-> "OPEN", timer |-> FALSE,
                  promise |-> IF @.promise = "pending" THEN "resolved" ELSE @.promise]]
    /\ UNCHANGED <<ws, wsConnecting, rq, ids>>

\* the connect timer of socket s fires: ws.close(); reject(...)
ConnectTimeout(s) ==
    /\ sock[s].timer
    /\ sock' = [CloseSocket(sock, s) EXCEPT
                 ![s].timer = FALSE,
                 ![s].promise = IF @ = "pending" THEN "rejected" ELSE @]
    /\ UNCHANGED <<ws, wsConnecting, rq, ids>>

\* ws.onclose of socket s: the close event of a socket that was closed, or
\* that the peer closes
SocketClose(s) ==
    /\ sock[s].rs \in {"CONNECTING", "OPEN", "CLOSING"}
    /\ sock' = [sock EXCEPT ![s].rs = "CLOSED"]
    /\ ws' = 0
    /\ wsConnecting' = 0
    /\ UNCHANGED <<rq, ids>>

\* the connection of socket s fails: ws.onerror, then ws.onclose, in one task
SocketError(s) ==
    /\ sock[s].rs \in {"CONNECTING", "OPEN", "CLOSING"}
    /\ sock' = [sock EXCEPT ![s] =
                 [rs |-> "CLOSED", timer |-> FALSE,
                  promise |-> IF @.promise = "pending" THEN "rejected" ELSE @.promise]]
    /\ ws' = 0
    /\ wsConnecting' = 0
    /\ UNCHANGED <<rq, ids>>

\* this.send(msg) writes to this.ws when it is OPEN and drops msg otherwise
SendWrites == IsOpen(ws)
\* the socket a send() writes to, 0 when the message is dropped
WrittenOn == IF SendWrites THEN ws ELSE 0

\* sendRequest up to its first await: the readyState test and connect()
StartRequest(r, n) ==
    /\ rq[r].pc = "new"
    /\ \A p \in Requests : p < r => rq[p].pc # "new"
    /\ IF ~IsOpen(ws)
       THEN /\ CanConnect(n)
            /\ LET c == ConnectEffect(n) IN
               /\ ws' = c.ws
               /\ wsConnecting' = c.wsConnecting
               /\ sock' = c.sock
               /\ rq' = [rq EXCEPT ![r].pc = "connect", ![r].cp = c.ret]
       ELSE /\ rq' = [rq EXCEPT ![r].pc = "crypto"]
            /\ UNCHANGED <<ws, wsConnecting, sock>>
    /\ UNCHANGED ids

\* await this.connect() completes
ConnectAwaited(r) ==
    /\ rq[r].pc = "connect"
    /\ sock[rq[r].cp].promise \in {"resolved", "rejected"}
    /\ rq' = IF sock[rq[r].cp].promise = "resolved"
             THEN [rq EXCEPT ![r].pc = "crypto", ![r].cp = 0]
             ELSE [rq EXCEPT ![r].pc = "done", ![r].cp = 0, ![r].out = "connect"]
    /\ UNCHANGED <<ws, wsConnecting, sock, ids>>

\* encryption and signing are done: ws = this.ws! and the promise executor,
\* which arms the timer, adds the listener and sends REQ
Subscribe(q, id) ==
    IF ws = 0
    THEN [q EXCEPT !.pc = "done", !.id = id, !.timer = TRUE, !.out = "TypeError"]
    ELSE [q EXCEPT !.pc = "sub", !.id = id, !.ws = ws, !.timer = TRUE,
                   !.listener = TRUE, !.reqOn = WrittenOn]

Signed(r) ==
    /\ rq[r].pc = "crypto"
    /\ rq' = [rq EXCEPT ![r] = Subscribe(@, ids[r])]
    /\ UNCHANGED <<ws, wsConnecting, sock, ids>>

\* the response checks of onMessage without the e-tag check
Accepts_noETag(q, ev) ==
    /\ ev.kind = NWC_RESPONSE_KIND
    /\ ev.pubkey = walletPubkey

\* the response checks of onMessage: kind, author, e tag
Accepts(q, ev) ==
    /\ ev.kind = NWC_RESPONSE_KIND
    /\ ev.pubkey = walletPubkey
    /\ ev.etag = q.id

\* onMessage(msg) of request record q
OnMessage(q, m) ==
    IF m.type = "EOSE" /\ m.sub = SubId(q.id)
    THEN IF ~q.eose
         THEN [q EXCEPT !.eose = TRUE, !.eventOn = WrittenOn]
         ELSE q
    ELSE IF m.type = "EVENT" /\ m.sub = SubId(q.id) /\ m.ev # NoEvent
    THEN IF Accepts(q, m.ev)
         THEN [q EXCEPT !.dec = Append(@, [ev |-> m.ev, sub |-> m.sub, eose |-> q.eose])]
         ELSE q
    ELSE q

\* the events a relay may deliver: responses of the wallet to any request,
\* decryptable or not, and events of another kind, of another author, or
\* without an e tag
EventInputs ==
    [t : {"event"}, kind : {NWC_RESPONSE_KIND}, pubkey : {walletPubkey},
     etag : EventIds, content : {"ok", "bad"}] \cup
    [t : {"event"}, kind : {NWC_REQUEST_KIND}, pubkey : {walletPubkey},
     etag : EventIds, content : {"ok"}] \cup
    [t : {"event"}, kind : {NWC_RESPONSE_KIND}, pubkey : {"other"},
     etag : EventIds, content : {"ok"}] \cup
    [t : {"event"}, kind : {NWC_RESPONSE_KIND}, pubkey : {walletPubkey},
     etag : {NoId}, content : {"ok"}]

MessageInputs ==
    [type : {"EOSE"}, sub : SubIds] \cup
    [type : {"EVENT"}, sub : SubIds, ev : EventInputs \cup {NoEvent}] \cup
    [type : {"OK", "NOTICE", "not JSON"}]

\* a decrypt of q is started only while fewer than MaxDecrypts are running
WithinDecrypts(q, m) ==
    \/ m.type # "EVENT"
    \/ Len(q.dec) < MaxDecrypts
    \/ OnMessage(q, m).dec = q.dec

\* a message event on socket s, dispatched to every listener on it
Deliver(s, m) ==
    /\ sock[s].rs = "OPEN"
    /\ \A r \in Requests : rq[r].listener /\ rq[r].ws = s => WithinDecrypts(rq[r], m)
    /\ rq' = [r \in Requests |->
                IF rq[r].listener /\ rq[r].ws = s THEN OnMessage(rq[r], m) ELSE rq[r]]
    /\ UNCHANGED <<ws, wsConnecting, sock, ids>>

RemoveAt(seq, i) == [j \in 1..(Len(seq) - 1) |-> IF j < i THEN seq[j] ELSE seq[j + 1]]

\* nip04Decrypt of the i-th running decrypt settles: the then or the catch
Decrypted(q, i) ==
    LET d == q.dec[i] IN
    [q EXCEPT !.dec = RemoveAt(@, i),
              !.timer = FALSE,
              !.closeIssued = TRUE,
              !.closeOn = IF @ # 0 THEN @ ELSE WrittenOn,
              !.listener = FALSE,
              !.out = IF @ # "none" THEN @
                      ELSE IF d.ev.content = "ok" THEN "resolved" ELSE "decrypt",
              !.by = IF q.out # "none" THEN @ ELSE d]

\* a catch that rejects every request outstanding on the socket of request r
DecryptDone_failsAll(r) ==
    /\ \E i \in DOMAIN rq[r].dec :
          rq' = [p \in Requests |->
                   IF p = r THEN Decrypted(rq[r], i)
                   ELSE IF /\ rq[r].dec[i].ev.content = "bad"
                           /\ rq[p].pc = "sub" /\ rq[p].out = "none"
                           /\ rq[p].ws = rq[r].ws
                   THEN [rq[p] EXCEPT !.timer = FALSE, !.listener = FALSE,
                                      !.out = "decrypt"]
                   ELSE rq[p]]
    /\ UNCHANGED <<ws, wsConnecting, sock, ids>>
DecryptDone(r) ==
    /\ \E i \in DOMAIN rq[r].dec : rq' = [rq EXCEPT ![r] = Decrypted(@, i)]
    /\ UNCHANGED <<ws, wsConnecting, sock, ids>>

\* a timer callback that only unsubscribes and leaves the promise pending
TimedOut_noReject(q) ==
    IF q.ws = 0
    THEN [q EXCEPT !.timer = FALSE,
                   !.closeIssued = TRUE,
                   !.closeOn = IF @ # 0 THEN @ ELSE WrittenOn]
    ELSE [q EXCEPT !.timer = FALSE,
                   !.closeIssued = TRUE,
                   !.closeOn = IF @ # 0 THEN @ ELSE WrittenOn,
                   !.listener = FALSE]
\* the timer callback that leaves the subscription open
TimedOut_noClose(q) ==
    IF q.ws = 0
    THEN [q EXCEPT !.timer = FALSE]
    ELSE [q EXCEPT !.timer = FALSE,
                   !.listener = FALSE,
                   !.out = IF @ = "none" THEN "timeout" ELSE @]

\* the request timer fires: CLOSE, removeEventListener (a TypeError when the
\* captured ws is null), reject
TimedOut(q) ==
    IF q.ws = 0
    THEN [q EXCEPT !.timer = FALSE,
                   !.closeIssued = TRUE,
                   !.closeOn = IF @ # 0 THEN @ ELSE WrittenOn]
    ELSE [q EXCEPT !.timer = FALSE,
                   !.closeIssued = TRUE,
                   !.closeOn = IF @ # 0 THEN @ ELSE WrittenOn,
                   !.listener = FALSE,
                   !.out = IF @ = "none" THEN "timeout" ELSE @]

RequestTimeout(r) ==
    /\ rq[r].timer
    /\ rq' = [rq EXCEPT ![r] = TimedOut(@)]
    /\ UNCHANGED <<ws, wsConnecting, sock, ids>>

-----------------------------------------------------------------------------
(***************************************************************************)
(* BitCaptchaWidget: startPayment and the sequential poll loop             *)
(*                                                                         *)
(* The calls on NwcClient (connect, makeInvoice, lookupInvoice,            *)
(* listTransactions) and payWithWebln are awaited: each completes in a     *)
(* step of its own, resolved with any value or rejected.  The buttons of   *)
(* the renderer call startPayment in idle and retry in error; destroy() is *)
(* public and may be called at any time.                                   *)
(***************************************************************************)
MAX_POLLS == 60

Sessions == 1..MaxSessions

TimeoutMessage == "Payment timeout - invoice expired"

\* a poll closure: the arguments of startPolling, pollCount, its timer
NewSession ==
    [pc |-> "new",          \* new, wait, lookup, list, ended
     hash |-> <<>>,         \* paymentHash
     invoice |-> "",        \* invoice
     pollCount |-> 0,       \* pollCount
     armed |-> FALSE,       \* a setTimeout(poll, POLL_INTERVAL) of this closure is pending
     checks |-> 0,          \* checkPayment calls made
     listCalls |-> 0,       \* listTransactions calls made
     lookupFailed |-> FALSE,\* the lookupInvoice call of this iteration was rejected
     listFailed |-> FALSE,  \* a listTransactions call of this closure was rejected
     ended |-> "no"]        \* no, found, timeout, stopped

\* startPayment is not running; failed: the message its catch reported last
Idle == [at |-> "none", failed |-> ""]

PollInit ==
    /\ wpc = Idle
    /\ polling = FALSE
    /\ pollTimer = 0
    /\ sess = [k \in Sessions |-> NewSession]

\* no confirmPaid call is in progress
NoConfirm == [at |-> "none"]

\* verifyManualPreimage has not been called
NoManual == [t |-> "none"]

\* no NIP-44 function is being called
NoNip == [op |-> "none"]

XInit == VInit /\ PollInit /\ confirm = NoConfirm /\ manual = NoManual /\ nip = NoNip

\* stopPolling that leaves the pending timer alone
StopPolling_keepsTimer(S) == S

\* stopPolling(): clearTimeout(this.pollTimer) on the sessions S
StopPolling(S) ==
    IF pollTimer # 0 THEN [S EXCEPT ![pollTimer].armed = FALSE] ELSE S

FreeSessions == { k \in Sessions : sess[k].pc = "new" }
NextSession == CHOOSE k \in FreeSessions : \A j \in FreeSessions : k <= j

\* startPolling(hash, invoice)
StartPolling(hash, invoice) ==
    /\ polling' = TRUE
    /\ pollTimer' = NextSession
    /\ sess' = [StopPolling(sess) EXCEPT ![NextSession] =
                  [NewSession EXCEPT !.pc = "wait", !.hash = hash,
                                     !.invoice = invoice, !.armed = TRUE]]

\* a catch of startPayment that logs the failure and reports nothing
StartFailed_silent(message) ==
    /\ wpc' = [Idle EXCEPT !.failed = message]
    /\ UNCHANGED <<smVars, polling, pollTimer, sess>>

\* the catch of startPayment: transition("error", {error: message})
StartFailed(message) ==
    /\ SmTransition("error", Given([error |-> Str(message)]))
    /\ wpc' = [Idle EXCEPT !.failed = message]
    /\ UNCHANGED <<polling, pollTimer, sess>>

\* startPayment up to its first await: transition("invoicing"), connect()
StartPayment ==
    /\ state = "idle"
    /\ wpc.at = "none"
    /\ FreeSessions # {}
    /\ SmTransition("invoicing", Absent)
    /\ wpc' = [at |-> "connect"]
    /\ UNCHANGED <<polling, pollTimer, sess, wVars, vcall>>

ConnectErrors == {"WebSocket connection failed", "WebSocket connection timeout"}

\* await this.nwc.connect() completes
ConnectDone(ok, message) ==
    /\ wpc.at = "connect"
    /\ IF ok
       THEN /\ wpc' = [at |-> "makeInvoice"]
            /\ UNCHANGED <<smVars, polling, pollTimer, sess>>
       ELSE StartFailed(message)
    /\ UNCHANGED <<wVars, vcall>>

MakeInvoiceErrors ==
    {"NWC request timeout: make_invoice", "make_invoice failed: internal (INTERNAL)",
     "Cannot read properties of undefined (reading 'invoice')"}

PollHashes == { GoodHash }

Invoice == "lnbc1"

\* await this.nwc.makeInvoice(...) completes: rejected with message, or
\* resolved with an invoice of payment hash h; webln: isWeblnAvailable()
MakeInvoiceDone(ok, message, h, webln) ==
    /\ wpc.at = "makeInvoice"
    /\ IF ~ok THEN StartFailed(message)
       ELSE IF "awaiting_payment" \notin VALID_TRANSITIONS[state]
       THEN StartFailed(InvalidTransition)
       ELSE LET created == [invoice |-> Str(Invoice), paymentHash |-> Str(h),
                            amount |-> Num(100)]
                bag == Spread(data, created)
            IN
            /\ data' = bag
            /\ thrown' = ""
            /\ UNCHANGED <<listeners, handles>>
            /\ IF webln
               THEN /\ state' = "webln_prompt"
                    /\ notified' = Notify(listeners, "webln_prompt", bag)
                    /\ call' = [op |-> "transition", from |-> "awaiting_payment",
                                target |-> "webln_prompt", data |-> Absent, listener |-> 0]
                    /\ wpc' = [at |-> "webln", hash |-> h]
                    /\ UNCHANGED <<polling, pollTimer, sess>>
               ELSE /\ state' = "awaiting_payment"
                    /\ notified' = Notify(listeners, "awaiting_payment", bag)
                    /\ call' = [op |-> "transition", from |-> state,
                                target |-> "awaiting_payment", data |-> Given(created), listener |-> 0]
                    /\ wpc' = Idle
                    /\ StartPolling(h, Invoice)
    /\ UNCHANGED <<wVars, vcall>>

\* what payWithWebln resolves with: result.preimage, or null
WeblnResults ==
    { Null, Str(<<>>), Str(GoodPreimage), Str(<<"0", "1">>), Str(<<"a">>) }

\* await payWithWebln(invoice.invoice) completes with preimage p
WeblnDone(p, now) ==
    /\ wpc.at = "webln"
    /\ IF Truthy(p)
       THEN LET v == verifyPreimage(p.v, wpc.hash)
                target == IF v.value THEN "verified" ELSE "error"
            IN IF ~v.ok
               THEN StartFailed(v.error) /\ UNCHANGED tokens
               ELSE IF target \notin VALID_TRANSITIONS[state]
               THEN StartFailed(InvalidTransition) /\ UNCHANGED tokens
               ELSE /\ HandlePaymentReceived(p.v, wpc.hash, now)
                    /\ wpc' = Idle
                    /\ UNCHANGED <<polling, pollTimer, sess>>
       ELSE IF "awaiting_payment" \notin VALID_TRANSITIONS[state]
       THEN StartFailed(InvalidTransition) /\ UNCHANGED tokens
       ELSE /\ SmTransition("awaiting_payment",
                  Given([invoice |-> Str(Invoice), paymentHash |-> Str(wpc.hash)]))
            /\ StartPolling(wpc.hash, Invoice)
            /\ wpc' = Idle
            /\ UNCHANGED tokens
    /\ UNCHANGED <<checked, verdict, paymentHash, callback, vcall>>

\* a closure whose poll() returned with no timer pending: nothing refers to
\* it any more, its locals are dropped
Returned(why) == [NewSession EXCEPT !.pc = "ended", !.ended = why]

\* pollCount > MAX_POLLS
ExceedsCap_atCap(n) == n >= MAX_POLLS

ExceedsCap(n) == n > MAX_POLLS

\* a timer that stays armed after it fired, as setInterval's does
Fired_interval(S, k) == S

\* the setTimeout timer of closure k has fired: it is no longer pending
Fired(S, k) == [S EXCEPT ![k].armed = FALSE]

\* the timer of closure k fires: poll() up to its await
PollTick(k) ==
    /\ sess[k].armed
    /\ LET fired == Fired(sess, k)
           n == sess[k].pollCount + 1
       IN IF ~polling
          THEN /\ sess' = [fired EXCEPT ![k] = Returned("stopped")]
               /\ UNCHANGED <<smVars, polling, pollTimer>>
          ELSE IF ExceedsCap(n)
          THEN /\ polling' = FALSE
               /\ pollTimer' = 0
               /\ sess' = [StopPolling(fired) EXCEPT ![k].pollCount = n,
                                                    ![k].pc = "ended",
                                                    ![k].ended = "timeout"]
               /\ SmTransition("error", Given([error |-> Str(TimeoutMessage)]))
          ELSE /\ sess' = [fired EXCEPT ![k].pollCount = n, ![k].pc = "lookup",
                                        ![k].checks = @ + 1]
               /\ UNCHANGED <<smVars, polling, pollTimer>>
    /\ UNCHANGED <<wpc, wVars, vcall>>

\* what checkResult(result, hash) would do now: return true, return false,
\* or throw (hexToBytes or transition) into the catch of checkPayment
CheckResultOutcome(result, hash) ==
    LET branch == checkResultBranch(result) IN
    IF branch = "false" THEN "false"
    ELSE IF branch = "handlePaymentReceived"
    THEN LET v == verifyPreimage(result.preimage.v, hash) IN
         IF ~v.ok THEN "throw"
         ELSE IF ~v.value
         THEN (IF "error" \in VALID_TRANSITIONS[state] THEN "true" ELSE "throw")
         ELSE IF "verified" \in VALID_TRANSITIONS[state] THEN "true" ELSE "throw"
    ELSE IF "verified" \in VALID_TRANSITIONS[state] THEN "true" ELSE "throw"

\* the end of poll(): found, or the next timer when this.polling still holds
PollEnd(k, found, S) ==
    IF found
    THEN /\ polling' = FALSE
         /\ pollTimer' = 0
         /\ sess' = [StopPolling(S) EXCEPT ![k] = Returned("found")]
    ELSE IF polling
    THEN /\ pollTimer' = k
         /\ sess' = [S EXCEPT ![k].pc = "wait", ![k].armed = TRUE]
         /\ UNCHANGED polling
    ELSE /\ sess' = [S EXCEPT ![k] = Returned("stopped")]
         /\ UNCHANGED <<polling, pollTimer>>

Pending == <<"p", "e", "n", "d", "i", "n", "g">>

\* the results of lookup_invoice the model draws from
PollRecords ==
    { Undefined,
      [t |-> "object", preimage |-> Undefined, settled_at |-> Undefined,
       state |-> Str(Pending)],
      [t |-> "object", preimage |-> Str(GoodPreimage), settled_at |-> Undefined,
       state |-> Undefined],
      [t |-> "object", preimage |-> Str(<<"0", "1">>), settled_at |-> Undefined,
       state |-> Undefined],
      [t |-> "object", preimage |-> Str(<<"a">>), settled_at |-> Undefined,
       state |-> Undefined],
      [t |-> "object", preimage |-> Str(<<"0", "0">>), settled_at |-> Num(1700000000),
       state |-> Undefined],
      [t |-> "object", preimage |-> Undefined, settled_at |-> Undefined,
       state |-> Str(<<"P", "a", "i", "d">>)] }

\* a rejected lookupInvoice that is reported as an error of the payment
LookupFailed_surfaced(k) ==
    /\ sess' = [sess EXCEPT ![k].pc = "list", ![k].listCalls = @ + 1,
                            ![k].lookupFailed = TRUE]
    /\ SmTransition("error", Given([error |-> Str("lookup_invoice failed")]))
    /\ UNCHANGED <<checked, verdict, tokens, polling, pollTimer>>

\* lookupInvoice was rejected: the first catch of checkPayment logs it, and
\* checkPayment goes on to list_transactions
LookupFailed(k) ==
    /\ sess' = [sess EXCEPT ![k].pc = "list", ![k].listCalls = @ + 1,
                            ![k].lookupFailed = TRUE]
    /\ UNCHANGED <<smVars, checked, verdict, tokens, polling, pollTimer>>

\* await this.nwc.lookupInvoice(hash, POLL_TIMEOUT) completes in closure k
LookupDone(k, ok, result, now) ==
    /\ sess[k].pc = "lookup"
    /\ IF ~ok
       THEN LookupFailed(k)
       ELSE /\ CheckResultFor(result, sess[k].hash, now)
            /\ IF CheckResultOutcome(result, sess[k].hash) = "true"
               THEN PollEnd(k, TRUE, sess)
               ELSE /\ sess' = [sess EXCEPT ![k].pc = "list", ![k].listCalls = @ + 1]
                    /\ UNCHANGED <<polling, pollTimer>>
    /\ UNCHANGED <<wpc, paymentHash, callback, vcall>>

\* tx.payment_hash === paymentHash || tx.invoice === invoice
Matches(tx, hash, invoice) ==
    tx.payment_hash = Str(hash) \/ tx.invoice = Str(invoice)

\* the transactions list_transactions reports: matched by payment_hash
\* (pending, paid with the preimage, a preimage that is no hex string),
\* matched by invoice only, and one of another invoice
TxInputs ==
    { [t |-> "object", payment_hash |-> Str(GoodHash), invoice |-> Str("lnbc9"),
       preimage |-> Undefined, settled_at |-> Undefined, state |-> Str(Pending)],
      [t |-> "object", payment_hash |-> Str(GoodHash), invoice |-> Str("lnbc9"),
       preimage |-> Str(GoodPreimage), settled_at |-> Undefined, state |-> Undefined],
      [t |-> "object", payment_hash |-> Str(GoodHash), invoice |-> Str("lnbc9"),
       preimage |-> Str(<<"a">>), settled_at |-> Undefined, state |-> Undefined],
      [t |-> "object", payment_hash |-> Null, invoice |-> Str(Invoice),
       preimage |-> Undefined, settled_at |-> Num(1700000000), state |-> Undefined],
      [t |-> "object", payment_hash |-> Null, invoice |-> Str("lnbc9"),
       preimage |-> Str(GoodPreimage), settled_at |-> Num(1700000000),
       state |-> Str(settled)] }

RECURSIVE Lists(_, _)
Lists(S, n) ==
    IF n = 0 THEN { <<>> }
    ELSE Lists(S, n - 1) \cup { Append(l, x) : l \in Lists(S, n - 1), x \in S }

\* how a listTransactions call completes
ListOutcomes ==
    [how : {"reject", "undefined", "empty"}, txs : { <<>> }]
      \cup [how : {"list"}, txs : Lists(TxInputs, MaxTx)]

\* await this.nwc.listTransactions(...) completes in closure k: rejected
\* ("reject"), resolved without a result ("undefined"), without the
\* transactions field ("empty"), or with the transactions txs ("list")
ListDone(k, how, txs, now) ==
    /\ sess[k].pc = "list"
    /\ LET hash == sess[k].hash
           transactions == IF how = "list" THEN txs ELSE <<>>
           matching == { i \in DOMAIN transactions :
                           Matches(transactions[i], hash, sess[k].invoice) }
           deciding == { i \in matching :
                           CheckResultOutcome(transactions[i], hash) # "false" }
           S == [sess EXCEPT ![k].listFailed = @ \/ how = "reject",
                             ![k].lookupFailed = FALSE]
       IN IF deciding # {}
          THEN LET i == CHOOSE i \in deciding : \A j \in deciding : i <= j
               IN /\ CheckResultFor(transactions[i], hash, now)
                  /\ PollEnd(k, CheckResultOutcome(transactions[i], hash) = "true", S)
          ELSE /\ IF matching # {}
                  THEN LET i == CHOOSE i \in matching : \A j \in matching : j <= i
                       IN checked' = transactions[i] /\ verdict' = "false"
                  ELSE UNCHANGED <<checked, verdict>>
               /\ UNCHANGED <<smVars, tokens>>
               /\ PollEnd(k, FALSE, S)
    /\ UNCHANGED <<wpc, paymentHash, callback, vcall>>

\* retry(): the retry button of the error view
Retry ==
    /\ state = "error"
    /\ polling' = FALSE
    /\ pollTimer' = 0
    /\ sess' = StopPolling(sess)
    /\ SmReset
    /\ UNCHANGED <<wpc, wVars, vcall>>

\* destroy(): stopPolling(), this.nwc.disconnect()
Destroy ==
    /\ polling' = FALSE
    /\ pollTimer' = 0
    /\ sess' = StopPolling(sess)
    /\ UNCHANGED <<smVars, wpc, wVars, vcall>>

-----------------------------------------------------------------------------
(***************************************************************************)
(* BitCaptchaWidget, the setInterval version with the "I've paid" button   *)
(* (widget.ts lines 1-259): startPolling, checkPayment, confirmPaid        *)
(*                                                                         *)
(* setInterval calls the async callback every POLL_INTERVAL whether or not *)
(* an earlier call has returned; a closure counts the lookup_invoice and   *)
(* list_transactions calls it has outstanding.                             *)
(***************************************************************************)
LIST_TX_FALLBACK_AFTER == 3

\* MAX_POLLS of the setInterval versions
MAX_POLLS_interval == 100

\* the closure startPolling(hash) creates, its interval set
NewInterval(hash) ==
    [pc |-> "live", hash |-> hash, pollCount |-> 0, lookups |-> 0, lists |-> 0,
     armed |-> TRUE]

\* the closure startPolling(hash) of the manual-entry version creates
\* (part_005 lines 84-92)
NewManual(hash) ==
    [pc |-> "live", hash |-> hash, pollCount |-> 0, useListTx |-> FALSE,
     listTxFailed |-> FALSE, manualShown |-> FALSE, lookups |-> 0, lists |-> 0,
     armed |-> TRUE]

\* the two setInterval versions of the widget
Versions == {"confirm", "manual"}

NewClosure(version, hash) ==
    IF version = "manual" THEN NewManual(hash) ELSE NewInterval(hash)

\* a closure whose interval is cleared and whose calls have all returned:
\* nothing refers to it any more
Settled(c) ==
    IF c.pc = "live" /\ ~c.armed /\ c.lookups + c.lists = 0
    THEN [pc |-> "ended", armed |-> FALSE]
    ELSE c

SettleAll(S) == [k \in DOMAIN S |-> Settled(S[k])]

\* stopPolling() of the setInterval versions: clearInterval(this.pollTimer)
IntervalStop(S) ==
    /\ pollTimer' = 0
    /\ sess' = SettleAll(StopPolling(S))

\* startPolling(hash)
IntervalStart(version, hash) ==
    /\ pollTimer' = NextSession
    /\ sess' = [SettleAll(StopPolling(sess)) EXCEPT
                  ![NextSession] = NewClosure(version, hash)]

\* await this.nwc.makeInvoice(...) completes (lines 47-80)
IntervalMakeInvoiceDone(version, ok, message, h, webln) ==
    /\ wpc.at = "makeInvoice"
    /\ IF ~ok THEN StartFailed(message)
       ELSE IF "awaiting_payment" \notin VALID_TRANSITIONS[state]
       THEN StartFailed(InvalidTransition)
       ELSE LET created == [invoice |-> Str(Invoice), paymentHash |-> Str(h),
                            amount |-> Num(100)]
                bag == Spread(data, created)
            IN
            /\ data' = bag
            /\ thrown' = ""
            /\ UNCHANGED <<listeners, handles, polling>>
            /\ IF webln
               THEN /\ state' = "webln_prompt"
                    /\ notified' = Notify(listeners, "webln_prompt", bag)
                    /\ call' = [op |-> "transition", from |-> "awaiting_payment",
                                target |-> "webln_prompt", data |-> Absent,
                                listener |-> 0]
                    /\ wpc' = [at |-> "webln", hash |-> h]
                    /\ UNCHANGED <<pollTimer, sess>>
               ELSE /\ state' = "awaiting_payment"
                    /\ notified' = Notify(listeners, "awaiting_payment", bag)
                    /\ call' = [op |-> "transition", from |-> state,
                                target |-> "awaiting_payment", data |-> Given(created),
                                listener |-> 0]
                    /\ wpc' = Idle
                    /\ IntervalStart(version, h)
    /\ UNCHANGED <<wVars, vcall, ivVars>>

\* await payWithWebln(invoice.invoice) completes with preimage p (lines 62-80)
IntervalWeblnDone(version, p, now) ==
    /\ wpc.at = "webln"
    /\ IF Truthy(p)
       THEN LET v == verifyPreimage(p.v, wpc.hash)
                target == IF v.value THEN "verified" ELSE "error"
            IN IF ~v.ok
               THEN StartFailed(v.error) /\ UNCHANGED tokens
               ELSE IF target \notin VALID_TRANSITIONS[state]
               THEN StartFailed(InvalidTransition) /\ UNCHANGED tokens
               ELSE /\ HandlePaymentReceived(p.v, wpc.hash, now)
                    /\ wpc' = Idle
                    /\ UNCHANGED <<polling, pollTimer, sess>>
       ELSE IF "awaiting_payment" \notin VALID_TRANSITIONS[state]
       THEN StartFailed(InvalidTransition) /\ UNCHANGED tokens
       ELSE /\ SmTransition("awaiting_payment",
                  Given([invoice |-> Str(Invoice), paymentHash |-> Str(wpc.hash)]))
            /\ IntervalStart(version, wpc.hash)
            /\ wpc' = Idle
            /\ UNCHANGED <<tokens, polling>>
    /\ UNCHANGED <<checked, verdict, paymentHash, callback, vcall, ivVars>>

\* the interval of closure k fires: the callback up to its await (lines 134-151)
IntervalTick(k) ==
    /\ sess[k].pc = "live"
    /\ sess[k].armed
    /\ sess[k].lookups + sess[k].lists < MaxInFlight
    /\ sess[k].pollCount < MaxTicks
    /\ LET n == sess[k].pollCount + 1
           counted == [sess EXCEPT ![k].pollCount = n]
           flag == Given([showConfirmPaid |-> Bool(TRUE)])
       IN IF n > MAX_POLLS_interval
          THEN /\ IntervalStop(counted)
               /\ SmTransition("error", Given([error |-> Str(TimeoutMessage)]))
          ELSE IF n = LIST_TX_FALLBACK_AFTER + 2
          THEN /\ SmTransition("awaiting_payment", flag)
               /\ sess' = IF "awaiting_payment" \in VALID_TRANSITIONS[state]
                          THEN [counted EXCEPT ![k].lookups = @ + 1]
                          ELSE counted
               /\ UNCHANGED pollTimer
          ELSE /\ sess' = [counted EXCEPT ![k].lookups = @ + 1]
               /\ UNCHANGED <<smVars, pollTimer>>
    /\ UNCHANGED <<wpc, polling, wVars, vcall, ivVars>>

\* checkPayment: what it does with a lookup_invoice result or a matching
\* transaction: the handler it calls, "false" for none, "throw" when reading
\* result.preimage fails
checkPaymentBranch(result) ==
    IF result.t # "object" THEN "throw"
    ELSE IF Truthy(result.preimage) THEN "handlePaymentReceived"
    ELSE IF Truthy(result.settled_at) THEN "handleSettledWithoutPreimage"
    ELSE "false"

\* the handler checkPayment calls for result returns, and checkPayment
\* returns true
Detects(result, hash) ==
    LET branch == checkPaymentBranch(result) IN
    CASE branch = "handlePaymentReceived" ->
           LET v == verifyPreimage(result.preimage.v, hash) IN
           /\ v.ok
           /\ (IF v.value THEN "verified" ELSE "error") \in VALID_TRANSITIONS[state]
      [] branch = "handleSettledWithoutPreimage" ->
           "verified" \in VALID_TRANSITIONS[state]
      [] OTHER -> FALSE

\* the calls checkPayment makes for result
Handle(result, hash, now) ==
    LET branch == checkPaymentBranch(result) IN
    CASE branch = "handlePaymentReceived" ->
           HandlePaymentReceived(result.preimage.v, hash, now)
      [] branch = "handleSettledWithoutPreimage" ->
           HandleSettledWithoutPreimage(hash, now)
      [] OTHER -> UNCHANGED <<smVars, tokens>>

NoTx == [t |-> "undefined"]

\* txResult.transactions?.find((tx) => tx.payment_hash === paymentHash)
FindMatch(txs, hash) ==
    LET matching == { i \in DOMAIN txs : txs[i].payment_hash = Str(hash) } IN
    IF matching = {} THEN NoTx
    ELSE txs[CHOOSE i \in matching : \A j \in matching : i <= j]

\* how a listTransactions call of this version completes: the lists in which
\* find() meets at most one transaction of another invoice before its match
FindOutcomes ==
    { o \in ListOutcomes :
        \A i \in DOMAIN o.txs : i < Len(o.txs) => o.txs[i].payment_hash = Null /\ i = 1 }

\* await this.nwc.lookupInvoice(hash) of closure k completes (lines 92-105)
IntervalLookupDone(k, ok, result, now) ==
    /\ sess[k].pc = "live"
    /\ sess[k].lookups > 0
    /\ LET hash == sess[k].hash
           returned == [sess EXCEPT ![k].lookups = @ - 1]
       IN IF ~ok
          THEN /\ sess' = [returned EXCEPT ![k].lists = @ + 1]
               /\ UNCHANGED <<smVars, tokens, pollTimer>>
          ELSE /\ Handle(result, hash, now)
               /\ IF Detects(result, hash)
                  THEN IntervalStop(returned)
                  ELSE /\ sess' = [returned EXCEPT ![k].lists = @ + 1]
                       /\ UNCHANGED pollTimer
    /\ UNCHANGED <<wpc, polling, checked, verdict, paymentHash, callback, vcall, ivVars>>

\* await this.nwc.listTransactions(...) of closure k completes (lines 107-127)
IntervalListDone(k, how, txs, now) ==
    /\ sess[k].pc = "live"
    /\ sess[k].lists > 0
    /\ LET hash == sess[k].hash
           returned == [sess EXCEPT ![k].lists = @ - 1]
           match == IF how = "list" THEN FindMatch(txs, hash) ELSE NoTx
       IN IF match.t = "undefined"
          THEN /\ sess' = SettleAll(returned)
               /\ UNCHANGED <<smVars, tokens, pollTimer>>
          ELSE /\ Handle(match, hash, now)
               /\ IF Detects(match, hash)
                  THEN IntervalStop(returned)
                  ELSE /\ sess' = SettleAll(returned)
                       /\ UNCHANGED pollTimer
    /\ UNCHANGED <<wpc, polling, checked, verdict, paymentHash, callback, vcall, ivVars>>

\* the data confirmPaid hands to its transitions
ConfirmChecking == [showConfirmPaid |-> Bool(FALSE), confirmChecking |-> Bool(TRUE)]
ConfirmFailed ==
    [showConfirmPaid |-> Bool(TRUE), confirmChecking |-> Bool(FALSE),
     confirmFailed |-> Bool(TRUE)]

\* this.stateMachine.data.paymentHash
StoredHash == IF "paymentHash" \in DOMAIN data THEN data.paymentHash ELSE Undefined

\* confirmPaid() up to its first await (lines 158-171); the renderer is handed
\* it as onConfirmPaid
ConfirmPaid ==
    /\ confirm = NoConfirm
    /\ IF ~Truthy(StoredHash)
       THEN UNCHANGED <<smVars, confirm>>
       ELSE /\ SmTransition("awaiting_payment", Given(ConfirmChecking))
            /\ confirm' = IF "awaiting_payment" \in VALID_TRANSITIONS[state]
                          THEN [at |-> "lookup", i |-> 0, hash |-> StoredHash.v]
                          ELSE NoConfirm
    /\ UNCHANGED <<wVars, vcall, pollVars, manual>>

\* the lookup_invoice call of confirmPaid's check i completes
BurstLookupDone(ok, result, now) ==
    /\ confirm.at = "lookup"
    /\ IF ~ok
       THEN /\ confirm' = [confirm EXCEPT !.at = "list"]
            /\ UNCHANGED <<smVars, tokens, pollTimer, sess>>
       ELSE /\ Handle(result, confirm.hash, now)
            /\ IF Detects(result, confirm.hash)
               THEN IntervalStop(sess) /\ confirm' = NoConfirm
               ELSE /\ confirm' = [confirm EXCEPT !.at = "list"]
                    /\ UNCHANGED <<pollTimer, sess>>
    /\ UNCHANGED <<wpc, polling, checked, verdict, paymentHash, callback, vcall, manual>>

\* the list_transactions call of confirmPaid's check i completes: found, or
\* the wait before the next check, or after the fifth the closing transition
BurstListDone(how, txs, now) ==
    /\ confirm.at = "list"
    /\ LET match == IF how = "list" THEN FindMatch(txs, confirm.hash) ELSE NoTx IN
       IF Detects(match, confirm.hash)
       THEN /\ Handle(match, confirm.hash, now)
            /\ IntervalStop(sess)
            /\ confirm' = NoConfirm
       ELSE IF confirm.i < 4
       THEN /\ Handle(match, confirm.hash, now)
            /\ confirm' = [confirm EXCEPT !.at = "wait"]
            /\ UNCHANGED <<pollTimer, sess>>
       ELSE /\ SmTransition("awaiting_payment", Given(ConfirmFailed))
            /\ confirm' = NoConfirm
            /\ UNCHANGED <<tokens, pollTimer, sess>>
    /\ UNCHANGED <<wpc, polling, checked, verdict, paymentHash, callback, vcall, manual>>

\* the 3000 ms between two checks of confirmPaid have passed
BurstWait ==
    /\ confirm.at = "wait"
    /\ confirm' = [confirm EXCEPT !.at = "lookup", !.i = @ + 1]
    /\ UNCHANGED <<smVars, wVars, vcall, pollVars, manual>>

\* retry() (lines 250-253)
IntervalRetry ==
    /\ state = "error"
    /\ IntervalStop(sess)
    /\ SmReset
    /\ UNCHANGED <<wpc, polling, wVars, vcall, ivVars>>

\* destroy() (lines 255-258)
IntervalDestroy ==
    /\ IntervalStop(sess)
    /\ UNCHANGED <<smVars, wpc, polling, wVars, vcall, ivVars>>

(***************************************************************************)
(* BitCaptchaWidget, the setInterval version with the manual preimage      *)
(* entry (src/unnamed/part_005)                                            *)
(***************************************************************************)
\* the interval of closure k fires: the callback up to its await
\* (part_005 lines 92-112)
ManualTick(k) ==
    /\ sess[k].pc = "live"
    /\ sess[k].armed
    /\ sess[k].lookups + sess[k].lists < MaxInFlight
    /\ sess[k].pollCount < MaxTicks
    /\ LET n == sess[k].pollCount + 1
           counted == [sess EXCEPT ![k].pollCount = n]
           shown == [counted EXCEPT ![k].manualShown = TRUE]
           flag == Given([showManualEntry |-> Bool(TRUE)])
       IN IF n > MAX_POLLS_interval
          THEN /\ IntervalStop(counted)
               /\ SmTransition("error", Given([error |-> Str(TimeoutMessage)]))
          ELSE IF ~sess[k].manualShown /\ n >= LIST_TX_FALLBACK_AFTER + 2
          THEN /\ SmTransition("awaiting_payment", flag)
               /\ sess' = IF "awaiting_payment" \in VALID_TRANSITIONS[state]
                          THEN [shown EXCEPT ![k].lookups = @ + 1]
                          ELSE shown
               /\ UNCHANGED pollTimer
          ELSE /\ sess' = [counted EXCEPT ![k].lookups = @ + 1]
               /\ UNCHANGED <<smVars, pollTimer>>
    /\ UNCHANGED <<wpc, polling, wVars, vcall, ivVars>>

\* handlePaymentReceived(preimage, hash) throws: verifyPreimage does, or the
\* transition it makes is not allowed
HandlerThrows(preimage, hash) ==
    LET v == verifyPreimage(preimage, hash) IN
    \/ ~v.ok
    \/ (IF v.value THEN "verified" ELSE "error") \notin VALID_TRANSITIONS[state]

\* await this.nwc.lookupInvoice(paymentHash) of closure k completes
\* (part_005 lines 112-125)
ManualLookupDone(k, ok, result, now) ==
    /\ sess[k].pc = "live"
    /\ sess[k].lookups > 0
    /\ LET done == [sess EXCEPT ![k].lookups = @ - 1]
           use == sess[k].useListTx \/ sess[k].pollCount >= LIST_TX_FALLBACK_AFTER
           switched == [done EXCEPT ![k].useListTx = use]
       IN IF ~ok \/ result.t # "object"
          THEN /\ sess' = SettleAll(done)
               /\ UNCHANGED <<smVars, tokens, pollTimer>>
          ELSE IF Truthy(result.preimage)
          THEN /\ IntervalStop(done)
               /\ HandlePaymentReceived(result.preimage.v, sess[k].hash, now)
          ELSE /\ sess' = IF use /\ ~sess[k].listTxFailed
                          THEN [switched EXCEPT ![k].lists = @ + 1]
                          ELSE SettleAll(switched)
               /\ UNCHANGED <<smVars, tokens, pollTimer>>
    /\ UNCHANGED <<wpc, polling, checked, verdict, paymentHash, callback, vcall, ivVars>>

\* txResult.transactions?.find((tx) => tx.payment_hash === paymentHash && tx.preimage)
FindPaid(txs, hash) ==
    LET matching == { i \in DOMAIN txs :
                        txs[i].payment_hash = Str(hash) /\ Truthy(txs[i].preimage) } IN
    IF matching = {} THEN NoTx
    ELSE txs[CHOOSE i \in matching : \A j \in matching : i <= j]

\* await this.nwc.listTransactions(invoiceCreatedAt) of closure k completes
\* (part_005 lines 126-140)
ManualListDone(k, how, txs, now) ==
    /\ sess[k].pc = "live"
    /\ sess[k].lists > 0
    /\ LET done == [sess EXCEPT ![k].lists = @ - 1]
           failed == [done EXCEPT ![k].listTxFailed = TRUE]
           match == IF how = "list" THEN FindPaid(txs, sess[k].hash) ELSE NoTx
       IN IF how \in {"reject", "undefined"}
          THEN /\ sess' = SettleAll(failed)
               /\ UNCHANGED <<smVars, tokens, pollTimer>>
          ELSE IF match.t = "undefined"
          THEN /\ sess' = SettleAll(done)
               /\ UNCHANGED <<smVars, tokens, pollTimer>>
          ELSE /\ pollTimer' = 0
               /\ sess' = SettleAll(StopPolling(
                            IF HandlerThrows(match.preimage.v, sess[k].hash)
                            THEN failed ELSE done))
               /\ HandlePaymentReceived(match.preimage.v, sess[k].hash, now)
    /\ UNCHANGED <<wpc, polling, checked, verdict, paymentHash, callback, vcall, ivVars>>

\* what the manual-entry form hands to onManualPreimage: strings of hex
\* digits of the length of a preimage
ManualInputs == { GoodPreimage, <<"0", "A">>, <<"0", "1">>, <<"f", "f">> }

\* the payment hashes of this version's invoices, as the wallet writes them
ManualHashes == { GoodHash, <<"C", "6">> }

\* verifyManualPreimage that leaves the interval running
VerifyManualPreimage_keepsPolling(preimage, now) ==
    /\ state = "awaiting_payment"
    /\ LET v == verifyPreimage(preimage, StoredHash.v) IN
       IF ~Truthy(StoredHash) \/ ~v.ok \/ ~v.value
       THEN /\ manual' = [t |-> "returned", preimage |-> preimage, result |-> FALSE]
            /\ UNCHANGED <<smVars, tokens, pollTimer, sess>>
       ELSE /\ HandlePaymentReceived(preimage, StoredHash.v, now)
            /\ manual' = [t |-> "returned", preimage |-> preimage, result |-> TRUE]
            /\ UNCHANGED <<pollTimer, sess>>
    /\ UNCHANGED <<wpc, polling, checked, verdict, paymentHash, callback, vcall, confirm>>

\* verifyManualPreimage(preimage) (part_005 lines 192-201), called by the
\* form of the awaiting_payment view
VerifyManualPreimage(preimage, now) ==
    /\ state = "awaiting_payment"
    /\ IF ~Truthy(StoredHash)
       THEN /\ manual' = [t |-> "returned", preimage |-> preimage, result |-> FALSE]
            /\ UNCHANGED <<smVars, tokens, pollTimer, sess>>
       ELSE LET v == verifyPreimage(preimage, StoredHash.v) IN
            IF ~v.ok
            THEN /\ manual' = [t |-> "threw", preimage |-> preimage, error |-> v.error]
                 /\ UNCHANGED <<smVars, tokens, pollTimer, sess>>
            ELSE IF ~v.value
            THEN /\ manual' = [t |-> "returned", preimage |-> preimage, result |-> FALSE]
                 /\ UNCHANGED <<smVars, tokens, pollTimer, sess>>
            ELSE /\ IntervalStop(sess)
                 /\ HandlePaymentReceived(preimage, StoredHash.v, now)
                 /\ manual' = IF HandlerThrows(preimage, StoredHash.v)
                              THEN [t |-> "threw", preimage |-> preimage,
                                    error |-> InvalidTransition]
                              ELSE [t |-> "returned", preimage |-> preimage,
                                    result |-> TRUE]
    /\ UNCHANGED <<wpc, polling, checked, verdict, paymentHash, callback, vcall, confirm>>

(***************************************************************************)
(* NIP-44 v2: padding, encrypt and decrypt (src/esbuild.config.mjs, the    *)
(* crypto module of the NWC client)                                        *)
(***************************************************************************)
\* the largest plaintext pad accepts, in bytes
MaxPlaintext == 65535

\* a thrown Error
Throw(message) == [ok |-> FALSE, error |-> message]
\* a returned value
Return(v) == [ok |-> TRUE, value |-> v]

RECURSIVE FloorLog2(_)
\* Math.floor(Math.log2(x)) for x >= 1
FloorLog2(x) == IF x < 2 THEN 0 ELSE 1 + FloorLog2(x \div 2)

\* 1 << k on 32-bit integers: the shift count is taken modulo 32 and bit 31
\* is the sign
ShiftLeft1(k) ==
    IF k % 32 = 31 THEN (0 - 2147483647) - 1 ELSE 2 ^ (k % 32)

\* calcPaddedLen with chunk = nextPower / 8 for every length over 32
calcPaddedLen_noMinChunk(unpaddedLen) ==
    IF unpaddedLen <= 0 THEN Throw("Invalid plaintext length")
    ELSE IF unpaddedLen <= 32 THEN Return(32)
    ELSE LET nextPower == ShiftLeft1(FloorLog2(unpaddedLen - 1) + 1)
             chunk == nextPower \div 8
         IN Return(chunk * (((unpaddedLen - 1) \div chunk) + 1))

\* calcPaddedLen(unpaddedLen) (lines 90-96)
calcPaddedLen(unpaddedLen) ==
    IF unpaddedLen <= 0 THEN Throw("Invalid plaintext length")
    ELSE IF unpaddedLen <= 32 THEN Return(32)
    ELSE LET nextPower == ShiftLeft1(FloorLog2(unpaddedLen - 1) + 1)
             chunk == IF nextPower <= 256 THEN 32 ELSE nextPower \div 8
         IN Return(chunk * (((unpaddedLen - 1) \div chunk) + 1))

\* ---- strings are sequences of UTF-16 code units, buffers sequences of bytes

IsHighSurrogate(c) == c >= 55296 /\ c <= 56319
IsLowSurrogate(c) == c >= 56320 /\ c <= 57343

\* U+FFFD in UTF-8
ReplacementBytes == <<239, 191, 189>>
ReplacementChar == 65533
ByteOrderMark == 65279

\* the bytes TextEncoder writes for the code unit at position i of s: a
\* surrogate pair is written at its first unit, a lone surrogate as U+FFFD
EncodeAt(s, i) ==
    LET c == s[i] IN
    IF c < 128 THEN <<c>>
    ELSE IF c < 2048 THEN <<192 + (c \div 64), 128 + (c % 64)>>
    ELSE IF IsHighSurrogate(c)
    THEN IF i < Len(s) /\ IsLowSurrogate(s[i + 1])
         THEN LET cp == 65536 + (c - 55296) * 1024 + (s[i + 1] - 56320) IN
              <<240 + (cp \div 262144), 128 + ((cp \div 4096) % 64),
                128 + ((cp \div 64) % 64), 128 + (cp % 64)>>
         ELSE ReplacementBytes
    ELSE IF IsLowSurrogate(c)
    THEN IF i > 1 /\ IsHighSurrogate(s[i - 1]) THEN <<>> ELSE ReplacementBytes
    ELSE <<224 + (c \div 4096), 128 + ((c \div 64) % 64), 128 + (c % 64)>>

RECURSIVE EncodeRange(_, _, _)
EncodeRange(s, lo, hi) ==
    IF lo > hi THEN <<>>
    ELSE IF lo = hi THEN EncodeAt(s, lo)
    ELSE LET mid == (lo + hi) \div 2 IN
         EncodeRange(s, lo, mid) \o EncodeRange(s, mid + 1, hi)

\* utf8ToBytes(str): new TextEncoder().encode(str) (utils/hex.ts lines 25-27)
utf8ToBytes(str) == EncodeRange(str, 1, Len(str))

IsContinuation(b) == b >= 128 /\ b <= 191

\* the length of the well-formed UTF-8 sequence that starts at position i of
\* b, 0 when there is none
SequenceAt(b, i) ==
    LET c == b[i]
        cont(j) == j <= Len(b) /\ IsContinuation(b[j])
    IN IF c < 128 THEN 1
       ELSE IF c >= 194 /\ c <= 223 /\ cont(i + 1) THEN 2
       ELSE IF c >= 224 /\ c <= 239 /\ cont(i + 1) /\ cont(i + 2)
               /\ (c = 224 => b[i + 1] >= 160) /\ (c = 237 => b[i + 1] <= 159)
       THEN 3
       ELSE IF c >= 240 /\ c <= 244 /\ cont(i + 1) /\ cont(i + 2) /\ cont(i + 3)
               /\ (c = 240 => b[i + 1] >= 144) /\ (c = 244 => b[i + 1] <= 143)
       THEN 4
       ELSE 0

\* position i of b lies inside a sequence that starts before it
Consumed(b, i) ==
    /\ IsContinuation(b[i])
    /\ \E j \in 1..3 : i - j >= 1 /\ SequenceAt(b, i - j) > j

\* the code units TextDecoder writes for position i of b
DecodeAt(b, i) ==
    LET c == b[i]
        n == SequenceAt(b, i)
        low(j) == b[j] - 128
    IN IF Consumed(b, i) THEN <<>>
       ELSE IF n = 1 THEN <<c>>
       ELSE IF n = 2 THEN <<(c - 192) * 64 + low(i + 1)>>
       ELSE IF n = 3 THEN <<(c - 224) * 4096 + low(i + 1) * 64 + low(i + 2)>>
       ELSE IF n = 4
       THEN LET cp == (c - 240) * 262144 + low(i + 1) * 4096 + low(i + 2) * 64
                        + low(i + 3) IN
            <<55296 + ((cp - 65536) \div 1024), 56320 + ((cp - 65536) % 1024)>>
       ELSE <<ReplacementChar>>

RECURSIVE DecodeRange(_, _, _)
DecodeRange(b, lo, hi) ==
    IF lo > hi THEN <<>>
    ELSE IF lo = hi THEN DecodeAt(b, lo)
    ELSE LET mid == (lo + hi) \div 2 IN
         DecodeRange(b, lo, mid) \o DecodeRange(b, mid + 1, hi)

\* new TextDecoder().decode(bytes): UTF-8, not fatal, and with the default
\* ignoreBOM = false a leading byte order mark is not part of the result
TextDecode(bytes) ==
    LET all == DecodeRange(bytes, 1, Len(bytes)) IN
    IF all # <<>> /\ all[1] = ByteOrderMark THEN Tail(all) ELSE all

\* new Uint8Array(n): n zero bytes
Zeros(n) == [i \in 1..n |-> 0]

\* pad(plaintext) (lines 98-111)
pad(plaintext) ==
    LET unpadded == utf8ToBytes(plaintext)
        unpaddedLen == Len(unpadded)
    IN IF unpaddedLen < 1 \/ unpaddedLen > MaxPlaintext
       THEN Throw("Invalid plaintext length")
       ELSE LET paddedLen == calcPaddedLen(unpaddedLen).value IN
            Return(<<(unpaddedLen \div 256) % 256, unpaddedLen % 256>>
                     \o unpadded \o Zeros(paddedLen - unpaddedLen))

\* padded[i] in a bit operation: an index past the end reads undefined, which
\* counts as 0 (i counts from 0)
ByteAt(padded, i) == IF i + 1 <= Len(padded) THEN padded[i + 1] ELSE 0

\* unpad(padded) (lines 113-124)
unpad(padded) ==
    LET unpaddedLen == ByteAt(padded, 0) * 256 + ByteAt(padded, 1) IN
    IF \/ unpaddedLen = 0
       \/ unpaddedLen > Len(padded) - 2
       \/ Len(padded) # 2 + calcPaddedLen(unpaddedLen).value
    THEN Throw("Invalid padding")
    ELSE Return(TextDecode(SubSeq(padded, 3, 2 + unpaddedLen)))

\* n times the code unit c
Repeat(c, n) == [i \in 1..n |-> c]

\* the plaintexts pad is called with: letters up to the lengths at which the
\* bucket changes and to the limit, characters of 2, 3 and 4 bytes, a byte
\* order mark first and inside, a surrogate without its pair
PlaintextInputs ==
    { Repeat(97, n) : n \in {0, 1, 2, 31, 32, 33, 64, 65, 256, 257,
                             MaxPlaintext, MaxPlaintext + 1} }
      \cup { <<233>>, <<8364, 97>>, <<55357, 56832>>, <<ByteOrderMark, 97>>,
             <<97, ByteOrderMark>>, <<55296>>, <<97, 56320, 98>>,
             Repeat(8364, 21845), Repeat(8364, 21846) }

\* a buffer that announces prefix bytes and is total bytes long
Buffer(prefix, total) ==
    SubSeq(<<(prefix \div 256) % 256, prefix % 256>> \o Repeat(97, total), 1, total)

\* the buffers unpad is called with
BufferInputs ==
    { Buffer(p, t) : p \in {0, 1, 2, 32, 33, 64, 65, 256, 257, 320},
                     t \in {0, 1, 2, 3, 34, 35, 66, 98, 258, 322} }

\* pad(plaintext) is called, and unpad with what it returned
PadCall ==
    /\ nip.op = "pad" /\ ~nip.done
    /\ LET out == pad(nip.plaintext) IN
       nip' = [nip EXCEPT !.done = TRUE, !.out = out,
                          !.back = IF out.ok THEN unpad(out.value) ELSE NoNip]

\* unpad(padded) is called
UnpadCall ==
    /\ nip.op = "unpad" /\ ~nip.done
    /\ nip' = [nip EXCEPT !.done = TRUE, !.out = unpad(nip.padded)]

\* the lengths calcPaddedLen is called with
LengthInputs == (0 - 1)..(MaxPlaintext + 1)

\* a call of calcPaddedLen
CalcPaddedLenCall ==
    /\ nip.op = "calcPaddedLen" /\ ~nip.done
    /\ nip' = [nip EXCEPT !.done = TRUE, !.out = calcPaddedLen(nip.n)]

\* ---- the primitives of @noble, abstracted: deterministic, of the right
\* ---- lengths, the cipher an involution, the tag sensitive to every byte

RECURSIVE WeightedSum(_, _, _)
\* the sum of bytes[i] * ((i % 251) + 1) for i in lo..hi
WeightedSum(bytes, lo, hi) ==
    IF lo > hi THEN 0
    ELSE IF lo = hi THEN bytes[lo] * ((lo % 251) + 1)
    ELSE LET mid == (lo + hi) \div 2 IN
         (WeightedSum(bytes, lo, mid) + WeightedSum(bytes, mid + 1, hi)) % 65521

Digest(bytes) == WeightedSum(bytes, 1, Len(bytes))

\* getMessageKeys(conversationKey, nonce) (lines 71-86): the keys HKDF-expand
\* derives, or the error for a key or nonce that is not 32 bytes long
getMessageKeys(conversationKey, nonce) ==
    IF Len(conversationKey) # 32 THEN Throw("Invalid conversation key length")
    ELSE IF Len(nonce) # 32 THEN Throw("Invalid nonce length")
    ELSE LET seed == Digest(conversationKey \o nonce) IN
         Return([chachaKey |-> seed % 256, chaChaNonce |-> (seed \div 256) % 256,
                 hmacKey |-> (seed * 31 + 7) % 65521])

\* chacha20(key, nonce, data): data xor a key stream; the stream of the model
\* has the bytes 0 and 255 only, and x xor 255 = 255 - x
chacha20(key, nonce, bytes) ==
    [i \in 1..Len(bytes) |->
        IF (key + nonce + i) % 3 = 0 THEN bytes[i] ELSE 255 - bytes[i]]

\* hmac(sha256, key, data): a tag of 32 bytes
hmac(key, bytes) ==
    LET h == (key + Digest(bytes) * 256 + Len(bytes)) % 65521 IN
    [i \in 1..32 |-> IF i = 1 THEN h \div 256
                     ELSE IF i = 2 THEN h % 256
                     ELSE (h + i * 37) % 256]

\* hmacAad(key, message, aad) (lines 128-138)
hmacAad(key, message, aad) ==
    IF Len(aad) # 32 THEN Throw("AAD must be 32 bytes")
    ELSE Return(hmac(key, aad \o message))

\* ---- base64: a character is its index in the alphabet, 64 for "=" and 65
\* ---- for a character outside the alphabet such as "#"
PadChar == 64
HashChar == 65

\* btoa(String.fromCharCode(...bytes))
btoa(bytes) ==
    LET n == Len(bytes)
        b(i) == IF i <= n THEN bytes[i] ELSE 0
        char(k) ==
            LET g == (k - 1) \div 4
                j == (k - 1) % 4
                b0 == b(3 * g + 1)
                b1 == b(3 * g + 2)
                b2 == b(3 * g + 3)
            IN CASE j = 0 -> b0 \div 4
                 [] j = 1 -> (b0 % 4) * 16 + (b1 \div 16)
                 [] j = 2 -> IF 3 * g + 2 > n THEN PadChar
                             ELSE (b1 % 16) * 4 + (b2 \div 64)
                 [] j = 3 -> IF 3 * g + 3 > n THEN PadChar ELSE b2 % 64
    IN [k \in 1..(4 * ((n + 2) \div 3)) |-> char(k)]

\* atob(chars): the bytes, or the InvalidCharacterError for a length of
\* 4k + 1 or a character outside the alphabet; one or two "=" are dropped
\* from the end of a string whose length is a multiple of 4
atob(chars) ==
    LET n == Len(chars)
        cut == IF n % 4 = 0 /\ n >= 2 /\ chars[n] = PadChar
               THEN (IF chars[n - 1] = PadChar THEN 2 ELSE 1)
               ELSE 0
        m == n - cut
        c(k) == IF k <= m THEN chars[k] ELSE 0
        byte(i) ==
            LET g == (i - 1) \div 3
                j == (i - 1) % 3
                c0 == c(4 * g + 1)
                c1 == c(4 * g + 2)
                c2 == c(4 * g + 3)
                c3 == c(4 * g + 4)
            IN CASE j = 0 -> c0 * 4 + (c1 \div 16)
                 [] j = 1 -> (c1 % 16) * 16 + (c2 \div 4)
                 [] j = 2 -> (c2 % 4) * 64 + c3
    IN IF m % 4 = 1 \/ \E k \in 1..m : chars[k] >= PadChar
       THEN Throw("InvalidCharacterError")
       ELSE Return([i \in 1..((m * 3) \div 4) |-> byte(i)])

\* lines 153-163 of nip44Encrypt: the padded bytes are encrypted, tagged and
\* put in the envelope
Seal(padded, keys, nonce) ==
    LET ciphertext == chacha20(keys.chachaKey, keys.chaChaNonce, padded)
        mac == hmacAad(keys.hmacKey, ciphertext, nonce)
    IN IF ~mac.ok THEN mac
       ELSE Return(btoa(<<2>> \o nonce \o ciphertext \o mac.value))

\* nip44Encrypt(plaintext, conversationKey, nonce) (lines 142-164)
nip44Encrypt(plaintext, conversationKey, nonce) ==
    LET keys == getMessageKeys(conversationKey, nonce)
        padded == pad(plaintext)
    IN IF ~keys.ok THEN keys
       ELSE IF ~padded.ok THEN padded
       ELSE Seal(padded.value, keys.value, nonce)

\* constantTimeEqual that compares the lengths only
constantTimeEqual_lengthOnly(a, b) == Len(a) = Len(b)

\* constantTimeEqual(a, b) (lines 195-202)
constantTimeEqual(a, b) ==
    /\ Len(a) = Len(b)
    /\ \A i \in 1..Len(a) : a[i] = b[i]

\* the outcome of nip44Decrypt and the calls it made on the way
Failed(message, ran) == [ok |-> FALSE, error |-> message, ran |-> ran]

\* nip44Decrypt(payload, conversationKey) (lines 166-193)
nip44Decrypt(payload, conversationKey) ==
    LET plen == Len(payload) IN
    IF plen = 0 \/ payload[1] = HashChar THEN Failed("Unknown version", <<>>)
    ELSE IF plen < 132 \/ plen > 87472 THEN Failed("Invalid payload size", <<>>)
    ELSE LET decoded == atob(payload) IN
    IF ~decoded.ok THEN Failed(decoded.error, <<"atob">>)
    ELSE LET bytes == decoded.value
             dlen == Len(bytes)
    IN
    IF dlen < 99 \/ dlen > 65603 THEN Failed("Invalid data size", <<"atob">>)
    ELSE IF bytes[1] # 2
    THEN Failed("Unknown version " \o ToString(bytes[1]), <<"atob">>)
    ELSE LET nonce == SubSeq(bytes, 2, 33)
             ciphertext == SubSeq(bytes, 34, dlen - 32)
             mac == SubSeq(bytes, dlen - 31, dlen)
             keys == getMessageKeys(conversationKey, nonce)
    IN
    IF ~keys.ok THEN Failed(keys.error, <<"atob", "getMessageKeys">>)
    ELSE LET calculatedMac == hmacAad(keys.value.hmacKey, ciphertext, nonce) IN
    IF ~constantTimeEqual(calculatedMac.value, mac)
    THEN Failed("Invalid MAC", <<"atob", "getMessageKeys", "hmacAad">>)
    ELSE LET padded == chacha20(keys.value.chachaKey, keys.value.chaChaNonce,
                                ciphertext)
             plain == unpad(padded)
             ran == <<"atob", "getMessageKeys", "hmacAad", "chacha20", "unpad">>
    IN
    IF plain.ok THEN [ok |-> TRUE, value |-> plain.value, ran |-> ran]
    ELSE Failed(plain.error, ran)

\* ---- the lengths of an envelope, as pad, nip44Encrypt and btoa compute them

\* new Uint8Array(2 + paddedLen) (line 104)
paddedLength(n) == 2 + calcPaddedLen(n).value

\* an envelope without the tag
payloadLength_noMac(c) == 1 + 32 + c

\* new Uint8Array(1 + 32 + ciphertext.length + 32) (line 157)
payloadLength(c) == 1 + 32 + c + 32

\* the length of what btoa returns for L bytes
base64Length(L) == 4 * ((L + 2) \div 3)

\* the two size checks of nip44Decrypt (lines 172 and 176)
PassesSizeChecks(plen, dlen) ==
    /\ ~(plen < 132 \/ plen > 87472)
    /\ ~(dlen < 99 \/ dlen > 65603)

\* the envelope of a plaintext of nip.n bytes is measured
EnvelopeCall ==
    /\ nip.op = "envelope" /\ ~nip.done
    /\ LET dlen == payloadLength(paddedLength(nip.n)) IN
       nip' = [nip EXCEPT !.done = TRUE,
                          !.out = [dlen |-> dlen, plen |-> base64Length(dlen)]]

\* ---- the inputs of nip44Encrypt and nip44Decrypt
ConversationKey == Repeat(1, 32)
KeyInputs == { ConversationKey, Repeat(9, 32) }
NonceInputs == { Repeat(7, 32), [i \in 1..32 |-> (i * 8) % 256] }

\* nip44Encrypt is called, and nip44Decrypt with what it returned
EncryptCall ==
    /\ nip.op = "encrypt" /\ ~nip.done
    /\ LET out == nip44Encrypt(nip.plaintext, ConversationKey, nip.nonce) IN
       nip' = [nip EXCEPT !.done = TRUE, !.out = out,
                          !.back = IF out.ok
                                   THEN nip44Decrypt(out.value, ConversationKey)
                                   ELSE NoNip]

\* the bytes with byte i replaced
SetByte(bytes, i, b) == [bytes EXCEPT ![i] = b]
Alter(bytes, i) == SetByte(bytes, i, (bytes[i] + 1) % 256)

\* the bytes of the envelope of a plaintext
EnvelopeBytes(plaintext, nonce) ==
    atob(nip44Encrypt(plaintext, ConversationKey, nonce).value).value

\* envelopes as a sender makes them
GoodEnvelopes ==
    { EnvelopeBytes(p, n) : p \in { <<97>>, Repeat(97, 33), <<8364, 97>> },
                            n \in NonceInputs }

\* envelopes with one byte changed: the version, the nonce, the ciphertext,
\* every byte of the tag
AlteredEnvelopes ==
    UNION { { Alter(e, i) : i \in {2, 33, 34, Len(e) - 32} \cup ((Len(e) - 31)..Len(e)) }
              \cup { SetByte(e, 1, v) : v \in {0, 1, 3, 255} }
              \cup { SubSeq(e, 1, Len(e) - 1), SubSeq(e, 1, 98), e \o <<0>> }
            : e \in GoodEnvelopes }

\* envelopes with a good tag around bytes that pad never returns
MispaddedEnvelopes ==
    { atob(Seal(b, getMessageKeys(ConversationKey, n).value, n).value).value :
        b \in { Buffer(0, 34), Buffer(1, 66), Buffer(40, 34) }, n \in NonceInputs }

\* the strings nip44Decrypt is called with
PayloadInputs ==
    { btoa(e) : e \in GoodEnvelopes \cup AlteredEnvelopes \cup MispaddedEnvelopes }
      \cup { <<>>, <<HashChar>>, <<HashChar>> \o Repeat(26, 200), Repeat(0, 4),
             Repeat(0, 131), Repeat(0, 132), Repeat(0, 133),
             Repeat(0, 130) \o <<PadChar, PadChar>>,
             <<0, 0, 0, 0, HashChar>> \o Repeat(0, 150),
             Repeat(0, 87472), Repeat(0, 87473), Repeat(0, 87476) }

\* nip44Decrypt is called
DecryptCall ==
    /\ nip.op = "decrypt" /\ ~nip.done
    /\ nip' = [nip EXCEPT !.done = TRUE, !.out = nip44Decrypt(nip.payload, nip.key)]

\* ---- listeners that call unsubscribe handles while they are notified
\* what each listener does when it is called: 0 for nothing, h for calling
\* the handle onStateChange returned for listener h
Scripts == [ListenerIds -> {0} \cup ListenerIds]

RECURSIVE ForOf(_, _, _, _, _, _)
\* for (const listener of this.listeners) listener(s, bag), from index i on:
\* the array iterator reads this.listeners[i] while i is below the length the
\* array has by then; the listeners left and the calls made
ForOf(ls, i, script, s, bag, calls) ==
    IF i >= Len(ls) THEN [listeners |-> ls, notified |-> calls]
    ELSE LET l == ls[i + 1]
             idx == IF script[l] = 0 THEN -1 ELSE IndexOf(ls, script[l])
         IN ForOf(IF idx >= 0 THEN Splice1(ls, idx) ELSE ls, i + 1, script, s, bag,
                  Append(calls, [listener |-> l, state |-> s, data |-> bag]))

\* the handles a script calls have been handed out
Callable(script) == \A l \in ListenerIds : script[l] # 0 => script[l] \in handles

\* transition(newState, d) with listeners that follow script
SmTransitionCalling(newState, d, script) ==
    LET allowed == VALID_TRANSITIONS[state]
        merged == IF d = Absent THEN data ELSE Spread(data, d[1])
        loop == ForOf(listeners, 0, script, newState, merged, <<>>)
    IN
    /\ Callable(script)
    /\ call' = [op |-> "transition", from |-> state, target |-> newState, data |-> d, listener |-> 0]
    /\ IF newState \notin allowed
       THEN /\ thrown' = InvalidTransition
            /\ notified' = <<>>
            /\ UNCHANGED <<state, data, listeners>>
       ELSE /\ thrown' = ""
            /\ state' = newState
            /\ data' = merged
            /\ notified' = loop.notified
            /\ listeners' = loop.listeners
    /\ UNCHANGED handles

\* reset() with listeners that follow script
SmResetCalling(script) ==
    LET loop == ForOf(listeners, 0, script, "idle", EmptyBag, <<>>) IN
    /\ Callable(script)
    /\ call' = [op |-> "reset", from |-> state, target |-> "idle", data |-> Absent, listener |-> 0]
    /\ state' = "idle"
    /\ data' = EmptyBag
    /\ notified' = loop.notified
    /\ listeners' = loop.listeners
    /\ thrown' = ""
    /\ UNCHANGED handles

-----------------------------------------------------------------------------
(***************************************************************************)
(* SpecSM: the state machine driven by an arbitrary caller                 *)
(***************************************************************************)
Transition == \E t \in PaymentState, d \in DataInputs : SmTransition(t, d)
Reset == SmReset
OnStateChange == \E l \in ListenerIds : SmOnStateChange(l)
Unsubscribe == \E l \in ListenerIds : SmUnsubscribe(l)

InitSM == SmInit /\ WInit /\ NwcInit /\ XInit

NextSM ==
    \/ Transition /\ UNCHANGED <<wVars, nwcVars, xVars>>
    \/ Reset /\ UNCHANGED <<wVars, nwcVars, xVars>>
    \/ OnStateChange /\ UNCHANGED <<wVars, nwcVars, xVars>>
    \/ Unsubscribe /\ UNCHANGED <<wVars, nwcVars, xVars>>

vars == <<smVars, wVars, nwcVars, xVars>>

SpecSM == InitSM /\ [][NextSM]_vars

(***************************************************************************)
(* SpecCheck: checkResult applied to the records a wallet may return,      *)
(* from the state startPayment leaves when the invoice has been created    *)
(***************************************************************************)
InitCheck ==
    /\ state = "awaiting_payment"
    /\ \E h \in HashInputs :
          /\ paymentHash = h
          /\ data = [invoice |-> Str("lnbc1"), paymentHash |-> Str(h),
                     amount |-> Num(100)]
    /\ listeners = <<1>>
    /\ handles = {}
    /\ notified = Notify(<<1>>, "awaiting_payment", data)
    /\ thrown = ""
    /\ call = [op |-> "transition", from |-> "invoicing", target |-> "awaiting_payment",
               data |-> Given(data), listener |-> 0]
    /\ checked = Undefined
    /\ verdict = "none"
    /\ tokens = <<>>
    /\ callback \in BOOLEAN
    /\ NwcInit
    /\ XInit

CheckResultStep ==
    /\ \E r \in RecordInputs, now \in Clock : CheckResult(r, now)
    /\ UNCHANGED <<nwcVars, xVars>>

NextCheck == CheckResultStep

SpecCheck == InitCheck /\ [][NextCheck]_vars

(***************************************************************************)
(* SpecVerify: createVerificationToken applied to any proof and hash, next *)
(* to the two handlers of the widget that build tokens                     *)
(***************************************************************************)
\* proofs: hex strings that hash or do not hash to a hash of the model, in
\* either case, of odd length, and with a character that is no hex digit
ProofInputs ==
    { <<>>, GoodPreimage, <<"0", "A">>, <<"0", "1">>, <<"0", "0">>, <<"a">>,
      <<"g", "0">>, <<"0", "g">> }

CreateTokenStep ==
    /\ \E p \in ProofInputs, h \in HashInputs, now \in Clock : CreateToken(p, h, now)
    /\ UNCHANGED <<smVars, wVars, nwcVars, pollVars, ivVars, nipVars>>

\* handlePaymentReceived as checkResult and startPayment call it
PaymentReceivedStep ==
    /\ \E p \in ProofInputs \ {<<>>}, now \in Clock :
          HandlePaymentReceived(p, paymentHash, now)
    /\ UNCHANGED <<checked, verdict, paymentHash, callback, nwcVars, xVars>>

\* handleSettledWithoutPreimage as checkResult calls it
SettledWithoutPreimageStep ==
    /\ \E now \in Clock : HandleSettledWithoutPreimage(paymentHash, now)
    /\ UNCHANGED <<checked, verdict, paymentHash, callback, nwcVars, xVars>>

NextVerify ==
    \/ CreateTokenStep
    \/ PaymentReceivedStep
    \/ SettledWithoutPreimageStep

SpecVerify == InitCheck /\ [][NextVerify]_vars

(***************************************************************************)
(* SpecNwc: one NwcClient, its sockets, the relay and the timers           *)
(***************************************************************************)
InitNwc == SmInit /\ WInit /\ NwcInit /\ XInit

NextNwc ==
    \/ (Connect(MaxSockets)) /\ UNCHANGED <<smVars, wVars, xVars>>
    \/ (Disconnect) /\ UNCHANGED <<smVars, wVars, xVars>>
    \/ (\E s \in Sockets : SocketOpen(s)) /\ UNCHANGED <<smVars, wVars, xVars>>
    \/ (\E s \in Sockets : ConnectTimeout(s)) /\ UNCHANGED <<smVars, wVars, xVars>>
    \/ (\E s \in Sockets : SocketClose(s)) /\ UNCHANGED <<smVars, wVars, xVars>>
    \/ (\E s \in Sockets : SocketError(s)) /\ UNCHANGED <<smVars, wVars, xVars>>
    \/ (\E r \in 1..SoloRequests : StartRequest(r, MaxSockets)) /\ UNCHANGED <<smVars, wVars, xVars>>
    \/ (\E r \in 1..SoloRequests : ConnectAwaited(r)) /\ UNCHANGED <<smVars, wVars, xVars>>
    \/ (\E r \in 1..SoloRequests : Signed(r)) /\ UNCHANGED <<smVars, wVars, xVars>>
    \/ (\E s \in Sockets, m \in MessageInputs : Deliver(s, m)) /\ UNCHANGED <<smVars, wVars, xVars>>
    \/ (\E r \in 1..SoloRequests : DecryptDone(r)) /\ UNCHANGED <<smVars, wVars, xVars>>
    \/ (\E r \in 1..SoloRequests : RequestTimeout(r)) /\ UNCHANGED <<smVars, wVars, xVars>>

SpecNwc == InitNwc /\ [][NextNwc]_vars

\* the steps the event loop takes by itself: a timer that is armed fires, and
\* the continuation of an await whose promise is settled runs
TimerFires(r) == RequestTimeout(r) /\ UNCHANGED <<smVars, wVars, xVars>>
ConnectTimerFires(s) == ConnectTimeout(s) /\ UNCHANGED <<smVars, wVars, xVars>>
ConnectContinues(r) == ConnectAwaited(r) /\ UNCHANGED <<smVars, wVars, xVars>>
CryptoContinues(r) == Signed(r) /\ UNCHANGED <<smVars, wVars, xVars>>
DecryptContinues(r) == DecryptDone(r) /\ UNCHANGED <<smVars, wVars, xVars>>

\* SpecNwc with timers that fire and awaits that continue; nothing is assumed
\* of the relay, the sockets or the application
FairNwc ==
    /\ \A r \in 1..SoloRequests : WF_vars(TimerFires(r))
    /\ \A s \in Sockets : WF_vars(ConnectTimerFires(s))
    /\ \A r \in 1..SoloRequests : WF_vars(ConnectContinues(r))
    /\ \A r \in 1..SoloRequests : WF_vars(CryptoContinues(r))
    /\ \A r \in 1..SoloRequests : WF_vars(DecryptContinues(r))

SpecNwcFair == InitNwc /\ [][NextNwc]_vars /\ FairNwc

(***************************************************************************)
(* SpecMux: several requests outstanding on the sockets of one client      *)
(***************************************************************************)
NextMux ==
    \/ (Connect(MuxSockets)) /\ UNCHANGED <<smVars, wVars, xVars>>
    \/ (Disconnect) /\ UNCHANGED <<smVars, wVars, xVars>>
    \/ (\E s \in Sockets : SocketOpen(s)) /\ UNCHANGED <<smVars, wVars, xVars>>
    \/ (\E s \in Sockets : ConnectTimeout(s)) /\ UNCHANGED <<smVars, wVars, xVars>>
    \/ (\E s \in Sockets : SocketClose(s)) /\ UNCHANGED <<smVars, wVars, xVars>>
    \/ (\E s \in Sockets : SocketError(s)) /\ UNCHANGED <<smVars, wVars, xVars>>
    \/ (\E r \in Requests : StartRequest(r, MuxSockets)) /\ UNCHANGED <<smVars, wVars, xVars>>
    \/ (\E r \in Requests : ConnectAwaited(r)) /\ UNCHANGED <<smVars, wVars, xVars>>
    \/ (\E r \in Requests : Signed(r)) /\ UNCHANGED <<smVars, wVars, xVars>>
    \/ (\E s \in Sockets, m \in MessageInputs : Deliver(s, m)) /\ UNCHANGED <<smVars, wVars, xVars>>
    \/ (\E r \in Requests : DecryptDone(r)) /\ UNCHANGED <<smVars, wVars, xVars>>
    \/ (\E r \in Requests : RequestTimeout(r)) /\ UNCHANGED <<smVars, wVars, xVars>>

SpecMux == InitNwc /\ [][NextMux]_vars

-----------------------------------------------------------------------------
(***************************************************************************)
(* SpecPoll: one widget, its buttons, the wallet's answers and the timers  *)
(***************************************************************************)
\* the constructor registers the renderer as the one listener; the page has set
\* data-callback
InitPoll ==
    /\ state = "idle"
    /\ data = EmptyBag
    /\ listeners = <<1>>
    /\ handles = {1}
    /\ notified = <<>>
    /\ thrown = ""
    /\ call = [op |-> "new", from |-> "idle", target |-> "idle", data |-> Absent, listener |-> 0]
    /\ checked = Undefined
    /\ verdict = "none"
    /\ tokens = <<>>
    /\ paymentHash = <<>>
    /\ callback = TRUE
    /\ NwcInit
    /\ XInit

NextPoll ==
    \/ StartPayment /\ UNCHANGED <<nwcVars, ivVars, nipVars>>
    \/ \E ok \in BOOLEAN, m \in ConnectErrors :
         ConnectDone(ok, m) /\ UNCHANGED <<nwcVars, ivVars, nipVars>>
    \/ \E ok \in BOOLEAN, m \in MakeInvoiceErrors, h \in PollHashes, webln \in BOOLEAN :
         MakeInvoiceDone(ok, m, h, webln) /\ UNCHANGED <<nwcVars, ivVars, nipVars>>
    \/ \E p \in WeblnResults, now \in Clock :
         WeblnDone(p, now) /\ UNCHANGED <<nwcVars, ivVars, nipVars>>
    \/ \E k \in Sessions : PollTick(k) /\ UNCHANGED <<nwcVars, ivVars, nipVars>>
    \/ \E k \in Sessions, ok \in BOOLEAN, r \in PollRecords, now \in Clock :
         LookupDone(k, ok, r, now) /\ UNCHANGED <<nwcVars, ivVars, nipVars>>
    \/ \E k \in Sessions, o \in ListOutcomes, now \in Clock :
         ListDone(k, o.how, o.txs, now) /\ UNCHANGED <<nwcVars, ivVars, nipVars>>
    \/ Retry /\ UNCHANGED <<nwcVars, ivVars, nipVars>>
    \/ Destroy /\ UNCHANGED <<nwcVars, ivVars, nipVars>>

SpecPoll == InitPoll /\ [][NextPoll]_vars

\* the later of the two readings of Date.now(): which reading a token gets
\* does not matter to the interval version
LastClock == { c \in Clock : \A d \in Clock : d <= c }

\* the widget before its first click; the event ids of the wallet connection,
\* which these versions of the widget never read, are fixed
InitWidget == InitPoll /\ ids = CHOOSE f \in IdInputs : TRUE

-----------------------------------------------------------------------------
(***************************************************************************)
(* SpecConfirm: the widget of widget.ts lines 1-259, with its buttons      *)
(***************************************************************************)
NextConfirm ==
    \/ StartPayment /\ UNCHANGED <<nwcVars, ivVars, nipVars>>
    \/ \E ok \in BOOLEAN, m \in ConnectErrors :
         ConnectDone(ok, m) /\ UNCHANGED <<nwcVars, ivVars, nipVars>>
    \/ \E ok \in BOOLEAN, m \in MakeInvoiceErrors, h \in PollHashes, webln \in BOOLEAN :
         IntervalMakeInvoiceDone("confirm", ok, m, h, webln) /\ UNCHANGED <<nwcVars, nipVars>>
    \/ \E p \in WeblnResults, now \in LastClock :
         IntervalWeblnDone("confirm", p, now) /\ UNCHANGED <<nwcVars, nipVars>>
    \/ \E k \in Sessions : IntervalTick(k) /\ UNCHANGED <<nwcVars, nipVars>>
    \/ \E k \in Sessions, ok \in BOOLEAN, r \in PollRecords, now \in LastClock :
         IntervalLookupDone(k, ok, r, now) /\ UNCHANGED <<nwcVars, nipVars>>
    \/ \E k \in Sessions, o \in FindOutcomes, now \in LastClock :
         IntervalListDone(k, o.how, o.txs, now) /\ UNCHANGED <<nwcVars, nipVars>>
    \/ ConfirmPaid /\ UNCHANGED <<nwcVars, nipVars>>
    \/ \E ok \in BOOLEAN, r \in PollRecords, now \in LastClock :
         BurstLookupDone(ok, r, now) /\ UNCHANGED <<nwcVars, nipVars>>
    \/ \E o \in FindOutcomes, now \in LastClock :
         BurstListDone(o.how, o.txs, now) /\ UNCHANGED <<nwcVars, nipVars>>
    \/ BurstWait /\ UNCHANGED <<nwcVars, nipVars>>
    \/ IntervalRetry /\ UNCHANGED <<nwcVars, nipVars>>
    \/ IntervalDestroy /\ UNCHANGED <<nwcVars, nipVars>>

SpecConfirm == InitWidget /\ [][NextConfirm]_vars

-----------------------------------------------------------------------------
(***************************************************************************)
(* SpecManual: the widget of src/unnamed/part_005, with its form           *)
(***************************************************************************)
NextManual ==
    \/ StartPayment /\ UNCHANGED <<nwcVars, ivVars, nipVars>>
    \/ \E ok \in BOOLEAN, m \in ConnectErrors :
         ConnectDone(ok, m) /\ UNCHANGED <<nwcVars, ivVars, nipVars>>
    \/ \E ok \in BOOLEAN, m \in MakeInvoiceErrors, h \in ManualHashes, webln \in BOOLEAN :
         IntervalMakeInvoiceDone("manual", ok, m, h, webln) /\ UNCHANGED <<nwcVars, nipVars>>
    \/ \E p \in WeblnResults, now \in Clock :
         IntervalWeblnDone("manual", p, now) /\ UNCHANGED <<nwcVars, nipVars>>
    \/ \E k \in Sessions : ManualTick(k) /\ UNCHANGED <<nwcVars, nipVars>>
    \/ \E k \in Sessions, ok \in BOOLEAN, r \in PollRecords, now \in Clock :
         ManualLookupDone(k, ok, r, now) /\ UNCHANGED <<nwcVars, nipVars>>
    \/ \E k \in Sessions, o \in FindOutcomes, now \in Clock :
         ManualListDone(k, o.how, o.txs, now) /\ UNCHANGED <<nwcVars, nipVars>>
    \/ \E p \in ManualInputs, now \in Clock :
         VerifyManualPreimage(p, now) /\ UNCHANGED <<nwcVars, nipVars>>
    \/ IntervalRetry /\ UNCHANGED <<nwcVars, nipVars>>
    \/ IntervalDestroy /\ UNCHANGED <<nwcVars, nipVars>>

SpecManual == InitWidget /\ [][NextManual]_vars

-----------------------------------------------------------------------------
(***************************************************************************)
(* SpecListeners: the state machine with listeners that unsubscribe while  *)
(* they are notified                                                       *)
(***************************************************************************)
\* the data the transitions of this specification carry
ListenerData == { Absent, Given([preimage |-> Str(GoodPreimage)]) }

InitListeners == InitSM /\ ids = CHOOSE f \in IdInputs : TRUE

NextListeners ==
    \/ \E t \in PaymentState, d \in ListenerData, script \in Scripts :
         SmTransitionCalling(t, d, script) /\ UNCHANGED <<wVars, nwcVars, xVars>>
    \/ \E script \in Scripts :
         SmResetCalling(script) /\ UNCHANGED <<wVars, nwcVars, xVars>>
    \/ \E l \in ListenerIds : SmOnStateChange(l) /\ UNCHANGED <<wVars, nwcVars, xVars>>
    \/ \E l \in ListenerIds : SmUnsubscribe(l) /\ UNCHANGED <<wVars, nwcVars, xVars>>

SpecListeners == InitListeners /\ [][NextListeners]_vars

-----------------------------------------------------------------------------
(***************************************************************************)
(* SpecNip: the NIP-44 functions, each called once with drawn arguments    *)
(***************************************************************************)
NipInputs ==
    [op : {"calcPaddedLen"}, n : LengthInputs, done : {FALSE}, out : {NoNip}]
      \cup [op : {"pad"}, plaintext : PlaintextInputs, done : {FALSE}, out : {NoNip},
             back : {NoNip}]
      \cup [op : {"unpad"}, padded : BufferInputs, done : {FALSE}, out : {NoNip}]
      \cup [op : {"envelope"}, n : 1..MaxPlaintext, done : {FALSE}, out : {NoNip}]
      \cup [op : {"encrypt"}, plaintext : PlaintextInputs, nonce : NonceInputs,
             done : {FALSE}, out : {NoNip}, back : {NoNip}]
      \cup [op : {"decrypt"}, payload : PayloadInputs, key : KeyInputs,
             done : {FALSE}, out : {NoNip}]

InitNip ==
    /\ SmInit /\ WInit /\ NwcInit /\ VInit /\ PollInit
    /\ confirm = NoConfirm /\ manual = NoManual
    /\ ids = CHOOSE f \in IdInputs : TRUE
    /\ nip \in NipInputs

NextNip ==
    \/ CalcPaddedLenCall /\ UNCHANGED <<smVars, wVars, nwcVars, vcall, pollVars, ivVars>>
    \/ PadCall /\ UNCHANGED <<smVars, wVars, nwcVars, vcall, pollVars, ivVars>>
    \/ UnpadCall /\ UNCHANGED <<smVars, wVars, nwcVars, vcall, pollVars, ivVars>>
    \/ EnvelopeCall /\ UNCHANGED <<smVars, wVars, nwcVars, vcall, pollVars, ivVars>>
    \/ EncryptCall /\ UNCHANGED <<smVars, wVars, nwcVars, vcall, pollVars, ivVars>>
    \/ DecryptCall /\ UNCHANGED <<smVars, wVars, nwcVars, vcall, pollVars, ivVars>>

SpecNip == InitNip /\ [][NextNip]_vars

-----------------------------------------------------------------------------
(***************************************************************************)
(* Claims about the state machine (SpecSM)                                 *)
(***************************************************************************)
\* the transition table as the specification lists it
ListedTargets(s) ==
    CASE s = "idle" -> {"invoicing"}
      [] s = "invoicing" -> {"awaiting_payment", "error"}
      [] s = "awaiting_payment" -> {"webln_prompt", "verified", "error"}
      [] s = "webln_prompt" -> {"verified", "awaiting_payment", "error"}
      [] s = "verified" -> {}
      [] s = "error" -> {"idle"}

\* C1: transition(t) from state s succeeds, and the state becomes t, exactly
\* when t is listed for s in the table; every other pair raises "Invalid
\* state transition" and leaves the state where it was.
Thm_C1 ==
    call.op = "transition" =>
        IF call.target \in ListedTargets(call.from)
        THEN thrown = "" /\ state = call.target
        ELSE thrown = InvalidTransition /\ state = call.from

\* a rejected pair (idle -> verified) and an accepted one have been tried
Wit_C1 ==
    /\ call.op = "transition"
    /\ call.from = "idle"
    /\ call.target = "verified"
    /\ thrown = InvalidTransition

\* C2: the machine starts in idle; once the state is verified, no transition()
\* call changes it, and a step that leaves verified is a reset().
Thm_C2 ==
    /\ state = "idle"
    /\ [][state = "verified" =>
            /\ (call'.op = "transition" => state' = "verified")
            /\ (state' # "verified" => call'.op = "reset")]_vars

\* a transition() was attempted in verified and was rejected
Wit_C2 ==
    /\ state = "verified"
    /\ call.op = "transition"
    /\ call.from = "verified"
    /\ thrown = InvalidTransition

-----------------------------------------------------------------------------
(***************************************************************************)
(* Claims about NwcClient (SpecNwc, SpecMux)                               *)
(***************************************************************************)
\* the promise of request r exists and is not settled
Outstanding(r) == rq[r].pc = "sub" /\ rq[r].out = "none"

\* C3: the ["EVENT", request] of a request is written to a connection only
\* after its ["REQ", subId, filter] was written to that connection and an
\* ["EOSE", subId] was received.
Cex_C3 ==
    \A r \in Requests :
        rq[r].eventOn # 0 => rq[r].eose /\ rq[r].reqOn = rq[r].eventOn

\* C4: a response delivered on the subscription before its EOSE is ignored:
\* no request is settled by a response that arrived before the EOSE.
Cex_C4 ==
    \A r \in Requests : rq[r].by # NoEvent => rq[r].by.eose

\* response d arrived on the subscription of request r, has the response kind,
\* is of the wallet and refers to the event of r
Correlated(r, d) ==
    /\ d.sub = SubId(rq[r].id)
    /\ d.ev.kind = NWC_RESPONSE_KIND
    /\ d.ev.pubkey = walletPubkey
    /\ d.ev.etag = rq[r].id

\* C5: a request is decrypted and settled only by an event delivered on its own
\* subscription id, of the response kind, of the wallet's key and with an e tag
\* equal to its own event id; so no request is settled with the response to
\* another request, whatever the order of arrival.
Thm_C5 ==
    \A r \in Requests :
        /\ \A i \in DOMAIN rq[r].dec : Correlated(r, rq[r].dec[i])
        /\ rq[r].out \in {"resolved", "decrypt"} =>
               /\ rq[r].by # NoEvent
               /\ Correlated(r, rq[r].by)
               /\ \A p \in Requests \ {r} : rq[r].by.ev.etag # ids[p]

\* two requests published on one socket under one subscription id, the later
\* one resolved while the earlier one still waits
Wit_C5 ==
    \E r, p \in Requests :
        /\ r < p
        /\ Outstanding(r) /\ rq[r].eventOn # 0
        /\ rq[p].out = "resolved" /\ rq[p].eventOn = rq[r].eventOn
        /\ rq[p].ws = rq[r].ws
        /\ SubId(rq[p].id) = SubId(rq[r].id)

Cex_C7 ==
    [][\A s \in Sockets :
          IsLive(s) /\ sock'[s].rs \in {"CLOSING", "CLOSED"} =>
              \A r \in Requests :
                  rq[r].ws = s /\ Outstanding(r) =>
                      rq'[r].out # "none" /\ ~rq'[r].listener]_vars

\* C8: while a connection attempt is outstanding, or a socket is open, no call
\* opens a socket.
Cex_C8 ==
    [][(\E s \in Sockets :
           \/ sock[s].rs = "CONNECTING" /\ sock[s].promise = "pending"
           \/ sock[s].rs = "OPEN")
       => \A s \in Sockets : sock[s].rs = "none" => sock'[s].rs = "none"]_vars

\* C9: a socket that is connecting or open is the one the client references.
Cex_C9 ==
    \A s \in Sockets : IsLive(s) => ws = s

(***************************************************************************)
(* Claims about checkResult (SpecCheck)                                    *)
(***************************************************************************)
\* the record carries a non-empty proof value that is not all zeros
HasProof(r) ==
    /\ r.t = "object"
    /\ r.preimage.t = "string"
    /\ \E i \in DOMAIN r.preimage.v : r.preimage.v[i] # "0"

\* the record carries a settlement timestamp (0 is the unset value)
HasSettlementTime(r) ==
    r.t = "object" /\ r.settled_at.t = "number" /\ r.settled_at.v # 0

\* the record's state field says settled or paid, in any letter case
StateSaysSettled(r) ==
    /\ r.t = "object"
    /\ r.state.t = "string"
    /\ toLowerCase(r.state.v) \in {settled, paid}

\* C10: a record with a non-empty, not all-zero proof is handled as proved
\* (handlePaymentReceived); otherwise one with a settlement timestamp or a
\* settled/paid state field is handled as trusted
\* (handleSettledWithoutPreimage); any other record, a missing one included,
\* is not settled: checkResult returns false and the state machine is not
\* called, so the state, the data bag and the tokens stay as they were.
Thm_C10 ==
    /\ [](verdict # "none" =>
            verdict = IF HasProof(checked) THEN "handlePaymentReceived"
                      ELSE IF HasSettlementTime(checked) \/ StateSaysSettled(checked)
                      THEN "handleSettledWithoutPreimage"
                      ELSE "false")
    /\ [][verdict' = "false" => UNCHANGED <<smVars, tokens>>]_vars

\* an all-zero proof with no timestamp and no state was checked: not settled
Wit_C10 ==
    /\ verdict = "false"
    /\ checked.t = "object"
    /\ checked.preimage = Str(<<"0", "0">>)
    /\ state = "awaiting_payment"

(***************************************************************************)
(* Claims about verification tokens (SpecVerify)                           *)
(***************************************************************************)
\* hexToBytes accepts proof p
Decodes(p) == hexToBytes(p).ok

\* the digest of the bytes of proof p, written in hex, is hash h in lower case
HashesTo(p, h) ==
    /\ Decodes(p)
    /\ hexes(Sha256Fold(227, hexToBytes(p).bytes)) = toLowerCase(h)

Cex_C12 ==
    (/\ verdict = "handleSettledWithoutPreimage"
     /\ ~Truthy(checked.preimage)
     /\ Truthy(checked.settled_at)
     /\ call.from = "awaiting_payment")
    => /\ state = "verified"
       /\ callback =>
            /\ tokens # <<>>
            /\ tokens[Len(tokens)].preimage = <<>>
            /\ tokens[Len(tokens)].settledAt = checked.settled_at.v


-----------------------------------------------------------------------------
(***************************************************************************)
(* The poll loop                                                           *)
(***************************************************************************)
\* closure k is inside an iteration: a lookup_invoice or list_transactions
\* round trip of it is outstanding
InIteration(k) == sess[k].pc \in {"lookup", "list"}

\* C13: the poll loop is sequential: at most one iteration is in progress at
\* any moment, and a timer for a next iteration is pending only while no
\* iteration is in progress, so that two iterations never overlap.
Thm_C13 ==
    /\ \A j, k \in Sessions : InIteration(j) /\ InIteration(k) => j = k
    /\ \A j, k \in Sessions : sess[j].armed => ~InIteration(k)
    /\ \A j, k \in Sessions : sess[j].armed /\ sess[k].armed => j = k

\* a second iteration is in progress, after the first one ran both round trips
Wit_C13 ==
    \E k \in Sessions :
        /\ sess[k].pc = "list"
        /\ sess[k].pollCount = 2
        /\ sess[k].listCalls = 2
        /\ ~sess[k].armed

\* closure k reports the timeout in this step
TimesOut(k) == sess[k].ended # "timeout" /\ sess'[k].ended = "timeout"

\* the timer of closure k fires in this step while polling is on
Ticks(k) == sess[k].armed /\ polling /\ sess'[k].pc # "wait"

\* C14: a polling session never makes more than MAX_POLLS checks; it reports
\* the timeout only after exactly MAX_POLLS checks, none of which found a
\* settlement; the tick after the MAX_POLLS-th check makes no further check,
\* stops polling and moves the machine to error with the timeout message.
Thm_C14 ==
    [][\A k \in Sessions :
        /\ sess'[k].checks <= MAX_POLLS
        /\ TimesOut(k) =>
             /\ sess[k].checks = MAX_POLLS
             /\ sess'[k].checks = MAX_POLLS
             /\ Ticks(k)
        /\ Ticks(k) /\ sess[k].checks = MAX_POLLS =>
             /\ TimesOut(k)
             /\ ~polling'
             /\ pollTimer' = 0
             /\ \A j \in Sessions : ~sess'[j].armed /\ ~InIteration(j)'
             /\ state = "awaiting_payment"
             /\ state' = "error"
             /\ data'.error = Str(TimeoutMessage)]_vars

\* the timeout was reported: MAX_POLLS checks were made, the machine is in
\* error with the timeout message
Wit_C14 ==
    \E k \in Sessions :
        /\ sess[k].ended = "timeout"
        /\ sess[k].checks = MAX_POLLS
        /\ state = "error"
        /\ "error" \in DOMAIN data
        /\ data.error = Str(TimeoutMessage)
        /\ ~polling

\* C15: once a list_transactions call of a polling session was rejected, no
\* later iteration of that session calls list_transactions again.
Cex_C15 ==
    [][\A k \in Sessions :
        sess[k].listFailed /\ sess[k].pc # "list" => sess'[k].pc # "list"]_vars

\* the lookupInvoice call of closure k is rejected in this step
LookupRejected(k) == sess[k].pc = "lookup" /\ sess'[k].lookupFailed

\* a listTransactions call of closure k is rejected in this step, the first
\* of the session, while polling is on
ListRejected(k) == sess[k].pc = "list" /\ ~sess[k].listFailed /\ sess'[k].listFailed

-----------------------------------------------------------------------------
(***************************************************************************)
(* startPayment                                                            *)
(***************************************************************************)
\* connect() or makeInvoice() fails in this step
CreationFails ==
    /\ wpc.at \in {"connect", "makeInvoice"}
    /\ wpc'.at = "none"
    /\ wpc'.failed # ""

\* C17: when connect() or makeInvoice() fails in startPayment, the machine
\* goes in that step from invoicing to error with the failure's message under
\* "error" in the data bag; the bag holds no invoice and no payment hash, no
\* poll closure is created and polling is off.
Thm_C17 ==
    [][CreationFails =>
        /\ state = "invoicing"
        /\ state' = "error"
        /\ call'.op = "transition" /\ call'.from = "invoicing" /\ call'.target = "error"
        /\ thrown' = ""
        /\ DOMAIN data' = {"error"}
        /\ data'.error = Str(wpc'.failed)
        /\ wpc'.failed \in ConnectErrors \cup MakeInvoiceErrors
        /\ ~polling'
        /\ pollTimer' = 0
        /\ sess' = sess
        /\ \A k \in Sessions : ~sess'[k].armed /\ ~InIteration(k)']_vars

\* make_invoice was answered with an error: the machine is in error with it
Wit_C17 ==
    /\ wpc = [at |-> "none", failed |-> "make_invoice failed: internal (INTERNAL)"]
    /\ state = "error"
    /\ call.op = "transition" /\ call.from = "invoicing" /\ call.target = "error"
    /\ data = [error |-> Str("make_invoice failed: internal (INTERNAL)")]
    /\ ~polling

-----------------------------------------------------------------------------
(***************************************************************************)
(* reset, the data bag and the listeners (SpecSM)                          *)
(***************************************************************************)
\* C18: reset() succeeds in whichever of the six states it is called, the
\* terminal state verified included, and leaves the machine in idle with an
\* empty data bag: the transition table plays no part.
Thm_C18 ==
    call.op = "reset" =>
        /\ call.from \in PaymentState
        /\ thrown = ""
        /\ state = "idle"
        /\ data = EmptyBag

\* reset() was called in verified, from where the table lists no target
Wit_C18 ==
    /\ call.op = "reset"
    /\ call.from = "verified"
    /\ "idle" \notin VALID_TRANSITIONS["verified"]
    /\ state = "idle"
    /\ data = EmptyBag

\* this step is a transition() call that succeeds
Succeeds == call'.op = "transition" /\ thrown' = "" /\ state' # state

\* C19: a successful transition(target, partialData) merges partialData into
\* the data bag: the bag afterwards has the keys it had and those of
\* partialData, the keys of partialData with the values given, every other
\* key with the value it had; without partialData the bag is unchanged.
Thm_C19 ==
    [][Succeeds =>
        LET d == call'.data IN
        /\ d = Absent => data' = data
        /\ d # Absent =>
             /\ DOMAIN data' = DOMAIN data \cup DOMAIN d[1]
             /\ \A k \in DOMAIN d[1] : data'[k] = d[1][k]
             /\ \A k \in DOMAIN data \ DOMAIN d[1] : data'[k] = data[k]]_vars

\* the preimage was merged into a bag that held the invoice, which is kept
Wit_C19 ==
    /\ call.op = "transition"
    /\ thrown = ""
    /\ call.data = Given([preimage |-> Str(GoodPreimage)])
    /\ DOMAIN data = {"invoice", "paymentHash", "amount", "preimage"}
    /\ data.invoice = Str("lnbc1")

\* C20: a successful transition() calls every registered listener once, in
\* registration order, each with the new state and the data bag as merged;
\* a rejected transition() calls no listener.
Thm_C20 ==
    call.op = "transition" =>
        IF thrown = ""
        THEN /\ Len(notified) = Len(listeners)
             /\ \A i \in DOMAIN listeners :
                  /\ notified[i].listener = listeners[i]
                  /\ notified[i].state = state
                  /\ notified[i].data = data
             /\ state = call.target
        ELSE notified = <<>>

\* two different listeners were notified of a transition that merged data
Wit_C20 ==
    /\ call.op = "transition"
    /\ thrown = ""
    /\ call.data # Absent
    /\ listeners = <<2, 1>>
    /\ Len(notified) = 2
    /\ notified[1].listener = 2
    /\ "invoice" \in DOMAIN notified[2].data

\* C21: once the unsubscribe handle of a listener has been called, the
\* transition or reset that follows does not notify that listener.
Cex_C21 ==
    [][call.op = "unsubscribe" /\ call'.op \in {"transition", "reset"} =>
        \A i \in DOMAIN notified' : notified'[i].listener # call.listener]_vars

\* the fifth firing of the timer of closure k, the payment still awaited
FifthMiss(k) ==
    /\ state = "awaiting_payment"
    /\ sess[k].pc = "live" /\ sess'[k].pc = "live"
    /\ sess[k].pollCount = LIST_TX_FALLBACK_AFTER + 1
    /\ sess'[k].pollCount = LIST_TX_FALLBACK_AFTER + 2

\* C22: at the fifth poll iteration (LIST_TX_FALLBACK_AFTER + 2) with the
\* payment still awaited, every observer is notified with a data bag whose
\* showConfirmPaid flag is set, the state stays awaiting_payment and the
\* timer stays armed.
Cex_C22 ==
    [][\A k \in Sessions : FifthMiss(k) =>
          /\ state' = "awaiting_payment"
          /\ "showConfirmPaid" \in DOMAIN data'
          /\ data'.showConfirmPaid = Bool(TRUE)
          /\ Len(notified') = Len(listeners)
          /\ \A i \in DOMAIN notified' :
               notified'[i].state = "awaiting_payment" /\ notified'[i].data = data'
          /\ sess'[k].armed]_vars

\* C24: confirmPaid() starts a burst of settlement checks: while its opening
\* transition is the last call on the state machine the call was accepted
\* and one of the (up to 5) checks or the wait between two of them is under
\* way, and the transition that closes an inconclusive burst is accepted and
\* leaves the state awaiting_payment.
Cex_C24 ==
    /\ call.op = "transition" /\ call.data = Given(ConfirmChecking) =>
         thrown = "" /\ confirm.at \in {"lookup", "list", "wait"} /\ confirm.i < 5
    /\ call.op = "transition" /\ call.data = Given(ConfirmFailed) =>
         thrown = "" /\ state = "awaiting_payment"

\* the preimage hashes to the payment hash the data bag holds
MatchesStored(preimage) == Truthy(StoredHash) /\ HashesTo(preimage, StoredHash.v)

\* the timer is cleared: no closure has its interval set
NoTimer == pollTimer = 0 /\ \A k \in Sessions : ~sess[k].armed

\* C23: a preimage submitted through the manual-entry form is checked against
\* the stored payment hash at once: if it hashes to it, the interval is
\* cleared, the state becomes verified and verifyManualPreimage returns true;
\* if not, it returns false and state, data bag and polling are unchanged.
Thm_C23 ==
    [][\A p \in ManualInputs, now \in Clock :
         VerifyManualPreimage(p, now) =>
           IF MatchesStored(p)
           THEN /\ manual' = [t |-> "returned", preimage |-> p, result |-> TRUE]
                /\ state' = "verified"
                /\ NoTimer'
           ELSE /\ manual' = [t |-> "returned", preimage |-> p, result |-> FALSE]
                /\ UNCHANGED <<state, data, pollTimer, sess>>]_vars

\* a matching preimage was submitted while the interval was set and a lookup
\* of it was still in flight
Wit_C23 ==
    /\ manual.t = "returned" /\ manual.result
    /\ state = "verified"
    /\ pollTimer = 0
    /\ \E k \in Sessions : sess[k].pc = "live" /\ sess[k].lookups > 0

\* C25: two requests with different event ids that are outstanding at the
\* same time on one socket never have the same subscription id.
Cex_C25 ==
    \A r, p \in Requests :
        (/\ r # p
         /\ Outstanding(r) /\ Outstanding(p)
         /\ rq[r].listener /\ rq[p].listener
         /\ rq[r].ws = rq[p].ws
         /\ rq[r].id # rq[p].id)
        => SubId(rq[r].id) # SubId(rq[p].id)

\* the loop is cancelled: the flag is down and no timer is pending
Stopped == ~polling /\ pollTimer = 0 /\ \A k \in Sessions : ~sess[k].armed

\* startPolling is called: a closure is created
Starts == \E k \in Sessions : sess[k].pc = "new" /\ sess'[k].pc # "new"

\* a poll iteration of some closure goes on to its settlement check
Iterates == \E k \in Sessions : sess[k].pc = "wait" /\ sess'[k].pc = "lookup"

\* C26: stopPolling (called by retry and destroy) leaves the loop cancelled,
\* its flag down and its timer cleared; while cancelled no poll iteration
\* starts and no timer is set until startPolling is called again; and calling
\* stopPolling on a cancelled loop changes nothing.
Thm_C26 ==
    [][/\ (Destroy \/ Retry) => Stopped'
       /\ Stopped /\ ~Starts => Stopped' /\ ~Iterates
       /\ Stopped /\ Destroy => UNCHANGED vars
       /\ Stopped => StopPolling(sess) = sess]_vars

\* the loop was cancelled while an iteration was awaiting the wallet
Wit_C26 ==
    /\ Stopped
    /\ state = "awaiting_payment"
    /\ \E k \in Sessions : sess[k].pc \in {"lookup", "list"} /\ sess[k].pollCount > 1

\* the powers of two up to 2^17
PowersOfTwo == { 2 ^ k : k \in 0..17 }

\* the next power of two >= n
NextPowerOfTwo(n) == CHOOSE p \in PowersOfTwo : p >= n /\ \A q \in PowersOfTwo : q >= n => p <= q

\* the bucket of a length n
Bucket(n) ==
    IF n <= 32 THEN 32
    ELSE LET p == NextPowerOfTwo(n)
             chunk == IF p <= 256 THEN 32 ELSE p \div 8
         IN chunk * (((n - 1) \div chunk) + 1)

\* C27: for every n in 1..65535 calcPaddedLen(n) returns the bucket of n (32
\* up to 32, else the multiple of chunk that covers n, chunk being 32 or an
\* eighth of the next power of two), which is at least n and at least
\* calcPaddedLen(n - 1); the chain of these steps is monotonicity over the
\* whole range.
Thm_C27 ==
    nip.op = "calcPaddedLen" /\ nip.done /\ nip.n \in 1..MaxPlaintext =>
        /\ nip.out.ok
        /\ nip.out.value = Bucket(nip.n)
        /\ nip.out.value >= nip.n
        /\ nip.n > 1 => calcPaddedLen(nip.n - 1).value <= nip.out.value

\* calcPaddedLen was called with the first length of a bucket wider than 32
Wit_C27 ==
    /\ nip.op = "calcPaddedLen" /\ nip.done
    /\ nip.n = 257 /\ nip.out = Return(320)

\* C28: unpad(pad(x)) = x for every plaintext x of 1..65535 bytes.
Cex_C28 ==
    nip.op = "pad" /\ nip.done /\ Len(utf8ToBytes(nip.plaintext)) \in 1..MaxPlaintext =>
        nip.out.ok /\ nip.back = Return(nip.plaintext)

\* C29: for every valid plaintext length n the envelope nip44Encrypt builds
\* decodes to 1 + 32 + (2 + calcPaddedLen(n)) + 32 bytes, between 99 and
\* 65603, and is between 132 and 87472 characters long, so that the two size
\* checks of nip44Decrypt pass for every envelope nip44Encrypt returns
Thm_C29 ==
    /\ nip.op = "envelope" /\ nip.done
         => /\ nip.out.dlen = 1 + 32 + (2 + calcPaddedLen(nip.n).value) + 32
            /\ nip.out.dlen \in 99..65603
            /\ nip.out.plen \in 132..87472
            /\ PassesSizeChecks(nip.out.plen, nip.out.dlen)
    /\ nip.op = "encrypt" /\ nip.done /\ nip.out.ok
         => LET n == Len(utf8ToBytes(nip.plaintext))
                dlen == payloadLength(paddedLength(n))
            IN /\ Len(nip.out.value) = base64Length(dlen)
               /\ Len(atob(nip.out.value).value) = dlen
               /\ PassesSizeChecks(Len(nip.out.value), dlen)
               /\ nip.back.ok

\* the longest plaintext has been encrypted: 65603 bytes in 87472 characters
Wit_C29 ==
    /\ nip.op = "encrypt" /\ nip.done /\ nip.out.ok
    /\ Len(utf8ToBytes(nip.plaintext)) = MaxPlaintext
    /\ Len(nip.out.value) = 87472
    /\ nip.back.ok

\* the tag nip44Decrypt recomputes for the bytes of an envelope
RecomputedTag(bytes, key) ==
    LET nonce == SubSeq(bytes, 2, 33) IN
    hmacAad(getMessageKeys(key, nonce).value.hmacKey,
            SubSeq(bytes, 34, Len(bytes) - 32), nonce).value

ReceivedTag(bytes) == SubSeq(bytes, Len(bytes) - 31, Len(bytes))

\* the first class of malformed input a payload falls in, "none" for a
\* payload whose tag is right and "encoding" for one that is not base64
InputClass(payload, key) ==
    IF Len(payload) = 0 \/ payload[1] = HashChar THEN "empty"
    ELSE IF Len(payload) \notin 132..87472 THEN "payload size"
    ELSE IF ~atob(payload).ok THEN "encoding"
    ELSE LET bytes == atob(payload).value IN
         IF Len(bytes) \notin 99..65603 THEN "data size"
         ELSE IF bytes[1] # 2 THEN "version"
         ELSE IF \E i \in 1..32 : ReceivedTag(bytes)[i] # RecomputedTag(bytes, key)[i]
              THEN "tag"
              ELSE "none"

Ran(step) == \E i \in DOMAIN nip.out.ran : nip.out.ran[i] = step

\* what nip44Decrypt does for the classes other than the version byte
RejectsInOrder ==
    LET class == InputClass(nip.payload, nip.key) IN
    /\ ~nip.out.ok => nip.out.error # ""
    /\ class = "empty" => nip.out = Failed("Unknown version", <<>>)
    /\ class = "payload size" => nip.out = Failed("Invalid payload size", <<>>)
    /\ class = "data size" => nip.out = Failed("Invalid data size", <<"atob">>)
    /\ class = "tag"
         => nip.out = Failed("Invalid MAC", <<"atob", "getMessageKeys", "hmacAad">>)
    /\ Ran("chacha20") \/ Ran("unpad") => class = "none"
    /\ class = "none" => Ran("chacha20") /\ Ran("unpad")

VersionByte == atob(nip.payload).value[1]

Cex_C31 ==
    [][/\ call'.op = "transition"
         => \A k \in DOMAIN data : k \in DOMAIN data' /\ data'[k] = data[k]
       /\ data # EmptyBag /\ data' = EmptyBag => call'.op = "reset"]_vars

\* C33: a transition() call that is rejected leaves the machine as it was:
\* the state, every entry of the data bag and the listener list are
\* unchanged, and no listener is called.
Thm_C33 ==
    [][call'.op = "transition" /\ thrown' # ""
         => /\ thrown' = InvalidTransition
            /\ call'.target \notin VALID_TRANSITIONS[state]
            /\ UNCHANGED <<state, data, listeners>>
            /\ notified' = <<>>]_vars

\* a transition with data was rejected while the bag held an invoice and a
\* listener was registered
Wit_C33 ==
    /\ call.op = "transition" /\ thrown = InvalidTransition
    /\ call.data = Given([preimage |-> Str(GoodPreimage)])
    /\ state = "invoicing"
    /\ DOMAIN data = {"invoice", "paymentHash", "amount"}
    /\ Len(listeners) = 2

\* C38: every listener that is registered when a transition() or a reset()
\* begins is notified exactly once by it, in registration order, also when
\* listeners call unsubscribe handles during the notification.
Cex_C38 ==
    [][call'.op \in {"transition", "reset"} /\ thrown' = ""
         => /\ Len(notified') = Len(listeners)
            /\ \A i \in DOMAIN listeners : notified'[i].listener = listeners[i]]_vars

\* C35: the widget with sequential polling, driven through start from idle,
\* retry from error, the outcome of the one-click payment, the wallet's
\* responses and the timer, never calls transition() with a pair that the
\* table rejects: no call raises "Invalid state transition", neither out of
\* the widget nor into the catch of startPayment.
Thm_C35 ==
    /\ thrown # InvalidTransition
    /\ "failed" \in DOMAIN wpc => wpc.failed # InvalidTransition
    /\ call.op = "transition" => call.target \in VALID_TRANSITIONS[call.from]

\* the one-click payment was declined and the widget went back to waiting,
\* with the invoice and the payment hash repeated
Wit_C35 ==
    /\ call.op = "transition" /\ thrown = ""
    /\ call.from = "webln_prompt" /\ call.target = "awaiting_payment"
    /\ state = "awaiting_payment"
    /\ polling

\* C36: the success hook is called only in the step in which the state
\* machine enters verified, once, and never again while the state is
\* verified, whichever settlement signals the wallet gives afterwards: at
\* most once between two resets.
Thm_C36 ==
    [][/\ tokens' # tokens
         => /\ callback
            /\ state # "verified" /\ state' = "verified"
            /\ call'.op = "transition" /\ call'.target = "verified" /\ thrown' = ""
            /\ Len(tokens') = Len(tokens) + 1
       /\ state = "verified" => tokens' = tokens
       /\ state' = "verified" /\ state # "verified" /\ callback
            => Len(tokens') = Len(tokens) + 1]_vars

\* the hook has been called once, for a settlement found by list_transactions
\* after lookup_invoice had given none
Wit_C36 ==
    /\ state = "verified"
    /\ Len(tokens) = 1
    /\ checked.t = "object" /\ "payment_hash" \in DOMAIN checked
    /\ ~polling

\* the wallet round trip of closure k completes in this step, after
\* stopPolling() has cancelled the loop
LateCompletion(k) ==
    /\ ~polling
    /\ sess[k].pc \in {"lookup", "list"}
    /\ sess'[k] # sess[k]

WrongProof(result, hash) ==
    /\ checkResultBranch(result) = "handlePaymentReceived"
    /\ ~HashesTo(result.preimage.v, hash)

\* C40: in verified, a non-empty proof in the data bag hashes to the payment
\* hash in the data bag; a non-zero proof that does not hash to the payment
\* hash, reported by the wallet or by the one-click payment, moves the state
\* to error, stops the polling and hands out no token.
Cex_C40 ==
    [][/\ state' = "verified" /\ "preimage" \in DOMAIN data'
            /\ Truthy(data'.preimage)
         => HashesTo(data'.preimage.v, data'.paymentHash.v)
       /\ \A k \in Sessions, r \in PollRecords, now \in Clock :
            LookupDone(k, TRUE, r, now) /\ WrongProof(r, sess[k].hash)
              => state' = "error" /\ ~polling' /\ pollTimer' = 0 /\ tokens' = tokens
       /\ \A p \in WeblnResults, now \in Clock :
            WeblnDone(p, now) /\ Truthy(p) /\ ~HashesTo(p.v, wpc.hash)
              => state' = "error" /\ ~polling' /\ pollTimer' = 0 /\ tokens' = tokens]_vars

\* C34: a request is published at most once: once its ["EVENT", request] is
\* written it is never written again, and a request whose subscription got an
\* ["EOSE", subId] has had exactly one ["EVENT", request] written, however many
\* EOSE and other messages the relay sends.
Cex_C34 ==
    [][\A r \in Requests :
          /\ rq[r].eventOn # 0 => rq'[r].eventOn = rq[r].eventOn
          /\ rq'[r].eose => rq'[r].eventOn # 0]_vars

\* the response of the wallet to the request of record q, decryptable, on the
\* subscription of q
OwnResponse(q) ==
    [type |-> "EVENT", sub |-> SubId(q.id),
     ev |-> [t |-> "event", kind |-> NWC_RESPONSE_KIND, pubkey |-> walletPubkey,
             etag |-> q.id, content |-> "ok"]]

\* onMessage of q accepts its own response and the decrypt of it resolves q
ResolvedByOwn(q) ==
    LET a == OnMessage(q, OwnResponse(q)) IN
    /\ Len(a.dec) = Len(q.dec) + 1
    /\ Decrypted(a, Len(a.dec)).out = "resolved"
    /\ Decrypted(a, Len(a.dec)).by.ev.etag = q.id

\* the promise of request r is rejected in this step with the decrypt failure
DecryptFails(r) == Outstanding(r) /\ rq'[r].out = "decrypt"

\* C32: a response that passes the kind, author and e-tag checks of a request
\* and cannot be decrypted rejects that request, after send(["CLOSE", subId])
\* and the removal of its listener and timer; no socket and no field of the
\* client changes, every other request is left as it was, and one that is
\* outstanding is still resolved by its own response when that arrives.
Thm_C32 ==
    [][\A r \in Requests :
          DecryptFails(r) =>
              /\ rq'[r].by # NoEvent
              /\ Correlated(r, rq'[r].by) /\ rq'[r].by.ev.content = "bad"
              /\ rq'[r].closeIssued /\ ~rq'[r].listener /\ ~rq'[r].timer
              /\ IsOpen(ws) => rq'[r].closeOn # 0
              /\ UNCHANGED <<ws, wsConnecting, sock>>
              /\ \A p \in Requests \ {r} :
                    /\ rq'[p] = rq[p]
                    /\ Outstanding(p) => rq'[p].listener /\ rq'[p].timer /\ ResolvedByOwn(rq'[p])]_vars

\* two requests published on one open socket under one subscription id: the
\* first was rejected for a response that could not be decrypted, the second
\* is still outstanding, its listener and timer in place
Wit_C32 ==
    \E r, p \in Requests :
        /\ r # p
        /\ rq[r].out = "decrypt" /\ rq[r].closeOn = rq[r].ws
        /\ Outstanding(p) /\ rq[p].listener /\ rq[p].timer
        /\ rq[p].ws = rq[r].ws /\ IsOpen(rq[p].ws) /\ ws = rq[p].ws
        /\ rq[p].eventOn = rq[p].ws
        /\ SubId(rq[p].id) = SubId(rq[r].id)

\* sendRequest was called for request r
Called(r) == rq[r].pc # "new"

\* the promise sendRequest returned for request r is resolved or rejected
RequestSettled(r) == rq[r].out \in {"resolved", "timeout", "decrypt", "connect", "TypeError"}

\* C37: every call of sendRequest settles: when armed timers fire and awaits
\* continue, a request that was started is in the end resolved or rejected,
\* whatever the relay sends or omits and whatever happens to the sockets.
Thm_C37 == \A r \in 1..SoloRequests : Called(r) ~> RequestSettled(r)

\* a request rejected by its timer on a socket that closed before the relay
\* sent anything for it
Wit_C37 ==
    \E r \in 1..SoloRequests :
        /\ rq[r].out = "timeout"
        /\ sock[rq[r].ws].rs = "CLOSED"
        /\ ~rq[r].eose /\ rq[r].dec = <<>> /\ rq[r].closeOn = 0

=============================================================================
